---- MODULE Spec2Model ----
(***************************************************************************)
(* patchpd: the generation / validation / repair pipeline of               *)
(* src/src/lib/openai.ts (generatePdPatch) and the handlers of the App     *)
(* component of src/src/App.tsx that drive it and keep the History.        *)
(*                                                                         *)
(* Text is modelled as it is in the program: a string is a sequence of     *)
(* one-character strings, and includes / split / replace / trim / match    *)
(* are computed on the characters.                                         *)
(***************************************************************************)
EXTENDS Integers, Sequences, FiniteSets, TLC

(***************************************************************************)
(* State                                                                   *)
(***************************************************************************)
VARIABLES
    prompt,            \* App state `prompt`
    pdErrors,          \* App state `pdErrors`
    isGenerating,      \* App state `isGenerating`
    isRegenerating,    \* App state `isRegenerating`
    currentPatch,      \* App state `currentPatch` (Nothing for null)
    history,           \* App state `history`, newest first
    showApiSettings,   \* App state `showApiSettings`
    localStorage,      \* the keys 'openai_api_key' and 'pdPatchHistory'
    now,               \* the last value read from the clock (Date.now()), 0 before
                       \* the first reading
    cycles,            \* the handleGenerate / handleRegenerate calls awaiting
                       \* generatePdPatch, by cycle number
    nextCycle,         \* the number of the next cycle
    network,           \* the completion requests the service has not answered
    timers,            \* the timers of the pending races, in the order they expire
    done               \* what the last step ended: a cycle, with its outcome, or a
                       \* request nobody awaited.  It is a record of the step for
                       \* the properties and is dropped before the next step.

vars == <<prompt, pdErrors, isGenerating, isRegenerating, currentPatch, history,
          showApiSettings, localStorage, now, cycles, nextCycle, network, timers, done>>

(***************************************************************************)
(* JavaScript values and string primitives                                 *)
(***************************************************************************)

\* null / undefined: localStorage.getItem of an absent key, a missing array
\* element, an absent optional argument, an Error without a status.
Null == <<"null">>

\* the character ` (a TLA+ string cannot hold it)
Backtick == "backtick"

\* s.substring(from) / the tail of s from 1-based position i on
From(s, i) == SubSeq(s, i, Len(s))

\* the regular-expression literal `needle` matches s at 1-based position i
MatchesAt(s, i, needle) ==
    /\ i >= 1
    /\ i + Len(needle) - 1 <= Len(s)
    /\ \A k \in 1..Len(needle) : s[i + k - 1] = needle[k]

\* String.prototype.includes
Includes(s, needle) == \E i \in 1..(Len(s) - Len(needle) + 1) : MatchesAt(s, i, needle)

\* String.prototype.startsWith
StartsWith(s, prefix) == MatchesAt(s, 1, prefix)

\* the whitespace String.prototype.trim removes
IsSpace(c) == c \in {" ", "\n", "\t", "\r"}

RECURSIVE TrimStart(_)
TrimStart(s) == IF s # <<>> /\ IsSpace(Head(s)) THEN TrimStart(Tail(s)) ELSE s

RECURSIVE TrimEnd(_)
TrimEnd(s) ==
    IF s # <<>> /\ IsSpace(s[Len(s)]) THEN TrimEnd(SubSeq(s, 1, Len(s) - 1)) ELSE s

\* a variant of trim() that removes the white space inside the text too; C19
\* holds of the one below and not of this one
TrimAll(s) == SelectSeq(s, LAMBDA c : ~IsSpace(c))

\* String.prototype.trim
Trim(s) == TrimEnd(TrimStart(s))

\* 1-based position of the first occurrence of needle in s, 0 when absent
IndexOf(s, needle) ==
    IF Includes(s, needle)
    THEN CHOOSE i \in 1..(Len(s) - Len(needle) + 1) :
            /\ MatchesAt(s, i, needle)
            /\ \A j \in 1..(i - 1) : ~MatchesAt(s, j, needle)
    ELSE 0

\* String.prototype.replace(needle, by) with a string pattern: the first
\* occurrence only
ReplaceFirst(s, needle, by) ==
    LET i == IndexOf(s, needle)
    IN  IF i = 0 THEN s
        ELSE SubSeq(s, 1, i - 1) \o by \o From(s, i + Len(needle))

\* Array.prototype.join
RECURSIVE Join(_, _)
Join(parts, sep) ==
    IF parts = <<>> THEN <<>>
    ELSE IF Len(parts) = 1 THEN parts[1]
    ELSE parts[1] \o sep \o Join(Tail(parts), sep)

\* the number of non-overlapping occurrences of needle, scanning left to
\* right: (s.match(/needle/g) || []).length
RECURSIVE CountLiteral(_, _)
CountLiteral(s, needle) ==
    LET i == IndexOf(s, needle)
    IN  IF i = 0 THEN 0 ELSE 1 + CountLiteral(From(s, i + Len(needle)), needle)

\* the leftmost of the positions `at` where a regular expression matches, 0
\* when it matches nowhere
FirstMatch(at) == IF at = {} THEN 0 ELSE CHOOSE i \in at : \A j \in at : i <= j

IsDigit(c) == c \in {"0", "1", "2", "3", "4", "5", "6", "7", "8", "9"}

\* the length of the longest run of digits of s that starts at position i (\d+
\* is greedy)
RECURSIVE DigitRun(_, _)
DigitRun(s, i) == IF i <= Len(s) /\ IsDigit(s[i]) THEN 1 + DigitRun(s, i + 1) ELSE 0

ConnectLiteral == <<"#", "X", " ", "c", "o", "n", "n", "e", "c", "t", " ">>

\* the length of the match of /#X connect \d+ \d+/ at position i, 0 when the
\* expression does not match there
ConnectMatchLen(s, i) ==
    IF ~MatchesAt(s, i, ConnectLiteral) THEN 0
    ELSE LET a  == i + Len(ConnectLiteral)
             d1 == DigitRun(s, a)
             d2 == DigitRun(s, a + d1 + 1)
         IN  IF d1 > 0 /\ a + d1 <= Len(s) /\ s[a + d1] = " " /\ d2 > 0
             THEN Len(ConnectLiteral) + d1 + 1 + d2
             ELSE 0

\* (patch.match(/#X connect \d+ \d+/g) || []).length: the matches are found
\* left to right, each search resuming where the previous match ended
RECURSIVE CountConnections(_, _)
CountConnections(s, from) ==
    LET i == FirstMatch({k \in from..Len(s) : ConnectMatchLen(s, k) > 0})
    IN  IF i = 0 THEN 0 ELSE 1 + CountConnections(s, i + ConnectMatchLen(s, i))

(***************************************************************************)
(* Response Splitter (openai.ts 79-83)                                     *)
(***************************************************************************)
PatchMarker == <<"-", "-", "-", "P", "A", "T", "C", "H", "-", "-", "-">>
ExplanationMarker == <<"-", "-", "-", "E", "X", "P", "L", "A", "N", "A", "T", "I", "O", "N", "-",
                       "-", "-">>

\* the length of the match of /---PATCH---|---EXPLANATION---/ at position i
MarkerLenAt(s, i) ==
    IF MatchesAt(s, i, PatchMarker) THEN Len(PatchMarker)
    ELSE IF MatchesAt(s, i, ExplanationMarker) THEN Len(ExplanationMarker)
    ELSE 0

\* content.split(/---PATCH---|---EXPLANATION---/): the pieces between the
\* matches, in order; `from` is where the current piece starts
RECURSIVE SplitFrom(_, _)
SplitFrom(s, from) ==
    LET i == FirstMatch({k \in from..Len(s) : MarkerLenAt(s, k) > 0})
    IN  IF i = 0 THEN <<SubSeq(s, from, Len(s))>>
        ELSE <<SubSeq(s, from, i - 1)>> \o SplitFrom(s, i + MarkerLenAt(s, i))

Split(content) == SplitFrom(content, 1)

FencePd == <<Backtick, Backtick, Backtick, "p", "d">>
Fence == <<Backtick, Backtick, Backtick>>

\* the length of the match of /```pd\n?|\n?```/ at position i
FenceLenAt(s, i) ==
    IF MatchesAt(s, i, FencePd)
    THEN Len(FencePd) + (IF MatchesAt(s, i + Len(FencePd), <<"\n">>) THEN 1 ELSE 0)
    ELSE IF MatchesAt(s, i, <<"\n">> \o Fence) THEN 1 + Len(Fence)
    ELSE IF MatchesAt(s, i, Fence) THEN Len(Fence)
    ELSE 0

\* s.replace(/```pd\n?|\n?```/g, ''): every match removed, left to right
RECURSIVE StripFences(_, _)
StripFences(s, from) ==
    LET i == FirstMatch({k \in from..Len(s) : FenceLenAt(s, k) > 0})
    IN  IF i = 0 THEN SubSeq(s, from, Len(s))
        ELSE SubSeq(s, from, i - 1) \o StripFences(s, i + FenceLenAt(s, i))

\* parts[k] of a JavaScript array (0-based), undefined past the end
At(parts, k) == IF k + 1 <= Len(parts) THEN parts[k + 1] ELSE Null

\* completion.choices[0].message.content || ''
ContentOf(messageContent) == IF messageContent = Null THEN <<>> ELSE messageContent

\* parts[1]?.replace(/```pd\n?|\n?```/g, '') || ''
PatchOf(content) ==
    LET parts == Split(content)
    IN  IF At(parts, 1) = Null THEN <<>> ELSE StripFences(At(parts, 1), 1)

\* parts[2] || ''
ExplanationOf(content) ==
    LET parts == Split(content)
    IN  IF At(parts, 2) = Null THEN <<>> ELSE At(parts, 2)

(***************************************************************************)
(* Structural Validator (openai.ts 86-106)                                 *)
(***************************************************************************)
HasAudioSource(patch) ==
    \/ Includes(patch, <<"o", "s", "c", "~">>)
    \/ Includes(patch, <<"p", "h", "a", "s", "o", "r", "~">>)
    \/ Includes(patch, <<"n", "o", "i", "s", "e", "~">>)

HasVolume(patch) == Includes(patch, <<"*", "~", " ", "0", ".", "5">>) \/ Includes(patch, <<"*",
                                      "~", " ", "0", ".", "2", "5">>)

\* the minimum number of required connections
MinConnections == 6

\* a variant of Validation without the last entry; C18 holds of the one below
\* and not of this one
ValidationTen(patch) ==
    << [key |-> <<"h", "a", "s", "S", "t", "a", "r", "t", "T", "o", "g", "g", "l", "e">>,
        ok  |-> Includes(patch, <<"t", "g", "l", " ", "1", "5", " ", "0">>) /\ Includes(patch,
                                  <<"S", "T", "A", "R", "T">>)],
       [key |-> <<"h", "a", "s", "D", "a", "c">>,
        ok  |-> Includes(patch, <<"d", "a", "c", "~">>)],
       [key |-> <<"h", "a", "s", "V", "o", "l", "u", "m", "e", "C", "o", "n", "t", "r", "o", "l">>,
        ok  |-> HasVolume(patch)],
       [key |-> <<"h", "a", "s", "V", "u", "M", "e", "t", "e", "r">>,
        ok  |-> Includes(patch, <<"v", "u", " ", "1", "5", " ", "1", "2", "0">>)],
       [key |-> <<"h", "a", "s", "I", "n", "s", "t", "r", "u", "c", "t", "i", "o", "n", "s">>,
        ok  |-> Includes(patch, <<"c", "n", "v", " ", "1", "5">>) /\ Includes(patch, <<"t", "e",
                                  "x", "t">>)],
       [key |-> <<"h", "a", "s", "L", "o", "a", "d", "B", "a", "n", "g">>,
        ok  |-> Includes(patch, <<"l", "o", "a", "d", "b", "a", "n", "g">>)],
       [key |-> <<"h", "a", "s", "M", "e", "t", "r", "o">>,
        ok  |-> Includes(patch, <<"m", "e", "t", "r", "o">>)],
       [key |-> <<"h", "a", "s", "C", "o", "n", "n", "e", "c", "t", "i", "o", "n", "s">>,
        ok  |-> Includes(patch, <<"#", "X", " ", "c", "o", "n", "n", "e", "c", "t">>)],
       [key |-> <<"h", "a", "s", "A", "u", "d", "i", "o", "C", "h", "a", "i", "n">>,
        ok  |-> /\ HasAudioSource(patch)
                /\ Includes(patch, <<"*", "~">>)
                /\ Includes(patch, <<"c", "l", "i", "p", "~">>)
                /\ Includes(patch, <<"d", "a", "c", "~">>)],
       [key |-> <<"h", "a", "s", "P", "r", "o", "p", "e", "r", "C", "o", "n", "n", "e", "c", "t",
                  "i", "o", "n", "s">>,
        ok  |-> CountConnections(patch, 1) >= MinConnections] >>

\* a variant of Validation whose last entry does not accept the gain 0.5; C30
\* holds of the one below and not of this one
ValidationQuiet(patch) ==
    Append(ValidationTen(patch),
           [key |-> <<"h", "a", "s", "S", "a", "f", "e", "V", "o", "l", "u", "m", "e">>,
            ok  |-> Includes(patch, <<"*", "~", " ", "0", ".", "2", "5">>) \/ Includes(patch,
                                      <<"*", "~", " ", "0", ".", "1">>)])

\* the `validation` object literal: its entries, in the order of the literal
\* (the order Object.values and Object.entries enumerate)
Validation(patch) ==
    << [key |-> <<"h", "a", "s", "S", "t", "a", "r", "t", "T", "o", "g", "g", "l", "e">>,
        ok  |-> Includes(patch, <<"t", "g", "l", " ", "1", "5", " ", "0">>) /\ Includes(patch,
                                  <<"S", "T", "A", "R", "T">>)],
       [key |-> <<"h", "a", "s", "D", "a", "c">>,
        ok  |-> Includes(patch, <<"d", "a", "c", "~">>)],
       [key |-> <<"h", "a", "s", "V", "o", "l", "u", "m", "e", "C", "o", "n", "t", "r", "o", "l">>,
        ok  |-> HasVolume(patch)],
       [key |-> <<"h", "a", "s", "V", "u", "M", "e", "t", "e", "r">>,
        ok  |-> Includes(patch, <<"v", "u", " ", "1", "5", " ", "1", "2", "0">>)],
       [key |-> <<"h", "a", "s", "I", "n", "s", "t", "r", "u", "c", "t", "i", "o", "n", "s">>,
        ok  |-> Includes(patch, <<"c", "n", "v", " ", "1", "5">>) /\ Includes(patch, <<"t", "e",
                                  "x", "t">>)],
       [key |-> <<"h", "a", "s", "L", "o", "a", "d", "B", "a", "n", "g">>,
        ok  |-> Includes(patch, <<"l", "o", "a", "d", "b", "a", "n", "g">>)],
       [key |-> <<"h", "a", "s", "M", "e", "t", "r", "o">>,
        ok  |-> Includes(patch, <<"m", "e", "t", "r", "o">>)],
       [key |-> <<"h", "a", "s", "C", "o", "n", "n", "e", "c", "t", "i", "o", "n", "s">>,
        ok  |-> Includes(patch, <<"#", "X", " ", "c", "o", "n", "n", "e", "c", "t">>)],
       [key |-> <<"h", "a", "s", "A", "u", "d", "i", "o", "C", "h", "a", "i", "n">>,
        ok  |-> /\ HasAudioSource(patch)
                /\ Includes(patch, <<"*", "~">>)
                /\ Includes(patch, <<"c", "l", "i", "p", "~">>)
                /\ Includes(patch, <<"d", "a", "c", "~">>)],
       [key |-> <<"h", "a", "s", "P", "r", "o", "p", "e", "r", "C", "o", "n", "n", "e", "c", "t",
                  "i", "o", "n", "s">>,
        ok  |-> CountConnections(patch, 1) >= MinConnections],
       [key |-> <<"h", "a", "s", "S", "a", "f", "e", "V", "o", "l", "u", "m", "e">>,
        ok  |-> HasVolume(patch) \/ Includes(patch, <<"*", "~", " ", "0", ".", "1">>)] >>

\* Object.values(validation).some(v => !v)
SomeMissing(validation) == \E i \in 1..Len(validation) : ~validation[i].ok

\* Object.entries(validation).filter(([, exists]) => !exists)
RECURSIVE FailedEntries(_)
FailedEntries(entries) ==
    IF entries = <<>> THEN <<>>
    ELSE IF ~Head(entries).ok THEN <<Head(entries)>> \o FailedEntries(Tail(entries))
    ELSE FailedEntries(Tail(entries))

\* a variant of MissingComponents that names every component, failed or not;
\* C4 holds of the one below and not of this one
AllComponents(validation) ==
    Join([i \in 1..Len(validation) |-> ReplaceFirst(validation[i].key, <<"h", "a", "s">>, <<>>)],
                                                            <<",", " ">>)

\* .map(([component]) => component.replace('has', '')).join(', ')
MissingComponents(validation) ==
    LET failed == FailedEntries(validation)
    IN  Join([i \in 1..Len(failed) |-> ReplaceFirst(failed[i].key, <<"h", "a", "s">>, <<>>)],
                                                            <<",", " ">>)

\* the last attempt number from which a repair attempt is still made
\* (retryCount < 2)
RetryLimit == 2

\* variants of the condition of the repair branch, each with one half of it
\* changed: without the limit on retryCount, without the look at the
\* validation, with the limit lowered to one repair.  The properties C1, C2
\* and C3 hold of the condition below and of none of these.
ShouldRetryUnbounded(retryCount, validation) == SomeMissing(validation)

ShouldRetryAlways(retryCount, validation) == retryCount < RetryLimit

ShouldRetryOnce(retryCount, validation) == retryCount < 1 /\ SomeMissing(validation)

\* the condition of the repair branch (openai.ts 109)
ShouldRetry(retryCount, validation) == retryCount < RetryLimit /\ SomeMissing(validation)

\* the errorFeedback argument of the recursive call (openai.ts 118)
RepairFeedback(validation) ==
    <<"P", "l", "e", "a", "s", "e", " ", "i", "n", "c", "l", "u", "d", "e", " ", "m", "i", "s",
      "s", "i", "n", "g", " ", "c", "o", "m", "p", "o", "n", "e", "n", "t", "s", ":",
      " ">> \o MissingComponents(validation)

(***************************************************************************)
(* Request Composer (openai.ts 23-69)                                      *)
(***************************************************************************)
\* the user turns of `messages` after the fixed system turn: the prompt and,
\* when errorFeedback is truthy, the 'Errors to fix' turn
Messages(prompt_, errorFeedback) ==
    <<prompt_>> \o
    (IF errorFeedback # Null /\ errorFeedback # <<>>
     THEN << <<"E", "r", "r", "o", "r", "s", " ", "t", "o", " ", "f", "i", "x", ":",
               " ">> \o errorFeedback >>
     ELSE <<>>)

(***************************************************************************)
(* Completion Client: credentials and failure classification               *)
(***************************************************************************)
\* an Error: its message and its status (0 for an Error without a status)
Err(message, status) == [message |-> message, status |-> status]

\* the checks of the stored key before any request is built (openai.ts 4-12)
KeyMissing(apiKey) == apiKey = Null \/ apiKey = <<>>

KeyInvalid(apiKey) == ~KeyMissing(apiKey) /\ ~StartsWith(apiKey, <<"s", "k", "-">>)

\* a variant of TimeoutError that the catch block would take for a rate
\* limit; C7 holds of the one below and not of this one
TimeoutWithStatus == Err(<<"O", "p", "e", "n", "A", "I", " ", "r", "e", "q", "u", "e", "s", "t",
                           " ", "t", "i", "m", "e", "o", "u", "t">>, 429)

\* the rejection of the timer of the race (openai.ts 74-76)
TimeoutError == Err(<<"O", "p", "e", "n", "A", "I", " ", "r", "e", "q", "u", "e", "s", "t", " ",
                      "t", "i", "m", "e", "o", "u", "t">>, 0)

\* a variant of CatchError that rethrows whatever it caught; C5 holds of the
\* one below and not of this one
CatchErrorRethrow(error) == error

\* the catch block of generatePdPatch (openai.ts 129-145): the error it throws
\* for the error it caught
CatchError(error) ==
    IF error.message = <<"A", "P", "I", "_", "K", "E", "Y", "_", "M", "I", "S", "S", "I", "N", "G">>
    THEN Err(<<"P", "l", "e", "a", "s", "e", " ", "s", "e", "t", " ", "y", "o", "u", "r", " ", "O",
               "p", "e", "n", "A", "I", " ", "A", "P", "I", " ", "k", "e", "y", " ", "i", "n", " ",
               "t", "h", "e", " ", "s", "e", "t", "t", "i", "n", "g", "s", " ", "t", "o", " ", "g",
               "e", "n", "e", "r", "a", "t", "e", " ", "p", "a", "t", "c", "h", "e", "s">>, 0)
    ELSE IF error.message = <<"A", "P", "I", "_", "K", "E", "Y", "_", "I", "N", "V", "A", "L", "I",
                              "D">>
    THEN Err(<<"I", "n", "v", "a", "l", "i", "d", " ", "A", "P", "I", " ", "k", "e", "y", " ", "f",
               "o", "r", "m", "a", "t", ".", " ", "P", "l", "e", "a", "s", "e", " ", "c", "h", "e",
               "c", "k", " ", "y", "o", "u", "r", " ", "O", "p", "e", "n", "A", "I", " ", "A", "P",
               "I", " ", "k", "e", "y">>, 0)
    ELSE IF error.status = 401
    THEN Err(<<"I", "n", "v", "a", "l", "i", "d", " ", "A", "P", "I", " ", "k", "e", "y", ".", " ",
               "P", "l", "e", "a", "s", "e", " ", "c", "h", "e", "c", "k", " ", "y", "o", "u", "r",
               " ", "O", "p", "e", "n", "A", "I", " ", "A", "P", "I", " ", "k", "e", "y", " ", "i",
               "n", " ", "s", "e", "t", "t", "i", "n", "g", "s">>, 0)
    ELSE IF error.status = 429
    THEN Err(<<"A", "P", "I", " ", "r", "a", "t", "e", " ", "l", "i", "m", "i", "t", " ", "e", "x",
               "c", "e", "e", "d", "e", "d", ".", " ", "P", "l", "e", "a", "s", "e", " ", "t", "r",
               "y", " ", "a", "g", "a", "i", "n", " ", "l", "a", "t", "e", "r">>, 0)
    ELSE error

(***************************************************************************)
(* The audio check of handleGenerate (App.tsx 1444-1454)                   *)
(***************************************************************************)
\* the number of '#X connect' the check asks for
MinAudioConnections == 6

\* a variant of AudioValidation that passes every patch; C8 holds of the one
\* below and not of this one
AudioValidationSkipped(patch) == TRUE

\* a variant of AudioValidation that asks for one '#X connect' more than the
\* validator does; C23 holds of the one below and not of this one
AudioValidationSeven(patch) ==
    /\ HasAudioSource(patch)
    /\ HasVolume(patch)
    /\ Includes(patch, <<"d", "a", "c", "~">>)
    /\ CountLiteral(patch, <<"#", "X", " ", "c", "o", "n", "n", "e", "c",
                             "t">>) >= MinAudioConnections + 1

\* Object.values(audioValidation).every(v => v)
AudioValidation(patch) ==
    /\ HasAudioSource(patch)
    /\ HasVolume(patch)
    /\ Includes(patch, <<"d", "a", "c", "~">>)
    /\ CountLiteral(patch, <<"#", "X", " ", "c", "o", "n", "n", "e", "c",
                             "t">>) >= MinAudioConnections

(***************************************************************************)
(* Bounds and inputs of the model                                          *)
(***************************************************************************)
\* the number of generation / regeneration cycles started in one behaviour
MaxCycles == 2

\* what the user types into the prompt box
Prompts == { <<>>, <<" ", "a">> }

\* what the user types into the error-feedback box
ErrorTexts == { <<>>, <<" ">>, <<"n", "o", " ", "d", "s", "p">> }

\* what the user submits in the API key form
KeyInputs == { <<>>, <<"p", "k">>, <<"s", "k", "-", "2">> }

\* what 'openai_api_key' holds when the application starts
InitialKeys == { Null, <<"p", "k">>, <<"s", "k", "-", "1">> }

\* the lines of a patch body
CanvasLine == <<"#", "X", " ", "o", "b", "j", " ", "c", "n", "v", " ", "1", "5", ";", "\n", "#",
                "X", " ", "t", "e", "x", "t", " ", "S", "T", "A", "R", "T", ";", "\n">>
ControlLines == <<"#", "X", " ", "o", "b", "j", " ", "l", "o", "a", "d", "b", "a", "n", "g", ";",
                  "\n", "#", "X", " ", "o", "b", "j", " ", "t", "g", "l", " ", "1", "5", " ", "0",
                  ";", "\n", "#", "X", " ", "o", "b", "j", " ", "m", "e", "t", "r", "o", ";", "\n">>
AudioLines == <<"#", "X", " ", "o", "b", "j", " ", "o", "s", "c", "~", ";", "\n", "#", "X", " ",
                "o", "b", "j", " ", "*", "~", " ", "0", ".", "5", ";", "\n", "#", "X", " ", "o",
                "b", "j", " ", "c", "l", "i", "p", "~", ";", "\n", "#", "X", " ", "o", "b", "j",
                " ", "d", "a", "c", "~", ";", "\n">>
VuLine == <<"#", "X", " ", "o", "b", "j", " ", "v", "u", " ", "1", "5", " ", "1", "2", "0", ";",
            "\n">>
FourConnections == <<"#", "X", " ", "c", "o", "n", "n", "e", "c", "t", " ", "0", " ", "1", ";",
                     "\n", "#", "X", " ", "c", "o", "n", "n", "e", "c", "t", " ", "1", " ", "2",
                     ";", "\n", "#", "X", " ", "c", "o", "n", "n", "e", "c", "t", " ", "2", " ",
                     "3", ";", "\n", "#", "X", " ", "c", "o", "n", "n", "e", "c", "t", " ", "3",
                     " ", "4", ";", "\n">>
TwoConnections == <<"#", "X", " ", "c", "o", "n", "n", "e", "c", "t", " ", "4", " ", "5", ";",
                    "\n", "#", "X", " ", "c", "o", "n", "n", "e", "c", "t", " ", "5", " ", "6",
                    ";", "\n">>

\* a completion in the format the system turn asks for
Completion(body) ==
    PatchMarker \o <<"\n">> \o body \o ExplanationMarker \o <<"\n", "o", "k", "\n">>

\* a completion that satisfies every check (the patch is fenced)
GoodCompletion ==
    Completion(FencePd \o <<"\n">> \o CanvasLine \o ControlLines \o AudioLines \o VuLine
               \o FourConnections \o TwoConnections \o Fence \o <<"\n">>)

\* a completion without the level meter
NoVuCompletion ==
    Completion(CanvasLine \o ControlLines \o AudioLines \o FourConnections \o TwoConnections)

\* a completion without the level meter and with four connections only
FewConnectionsCompletion ==
    Completion(CanvasLine \o ControlLines \o AudioLines \o FourConnections)

\* the message.content of the completions the service answers with
Completions == { GoodCompletion, NoVuCompletion, FewConnectionsCompletion }

\* completions that are not in that format: without markers, with one marker,
\* with the markers in the other order, with a marker twice, with nothing
\* between or around the markers
NoMarkers == <<"H", "e", "r", "e", " ", "i", "s", "\n", "#", "X", " ", "o", "b", "j", " ", "d",
               "a", "c", "~", ";">>
PatchOnly == <<"H", "e", "r", "e", ":", "\n">> \o PatchMarker \o <<"\n", "#", "X", " ", "o", "b",
               "j", " ", "d", "a", "c", "~", ";", "\n">>
ExplanationOnly == <<"S", "o", "r", "r", "y", ".", "\n">> \o ExplanationMarker \o <<"\n", "n", "o",
                     " ", "p", "a", "t", "c", "h", "\n">>
Reversed == ExplanationMarker \o <<"\n", "f", "m", "\n">> \o PatchMarker \o <<"\n", "#", "X", " ",
                                   "o", "b", "j", " ", "d", "a", "c", "~", ";", "\n">>
PatchTwice ==
    PatchMarker \o <<"\n", "#", "X", " ", "o", "b", "j", " ", "o", "s", "c", "~", ";",
                     "\n">> \o PatchMarker \o <<"\n", "#", "X", " ", "o", "b", "j", " ", "d", "a",
                     "c", "~", ";", "\n">>
    \o ExplanationMarker \o <<"\n", "f", "m", "\n">>
ExplanationTwice ==
    PatchMarker \o <<"\n", "#", "X", " ", "o", "b", "j", " ", "d", "a", "c", "~", ";",
                     "\n">> \o ExplanationMarker \o <<"\n", "f", "m", "\n">>
    \o ExplanationMarker \o <<"\n", "m", "o", "r", "e", "\n">>
MarkersOnly == PatchMarker \o ExplanationMarker

MarkerCompletions ==
    { <<>>, NoMarkers, PatchOnly, ExplanationOnly, Reversed, PatchTwice, ExplanationTwice,
      MarkersOnly }

\* completions in the format asked for whose volume stage has another gain
VolumeLines(gain) == <<"#", "X", " ", "o", "b", "j", " ", "o", "s", "c", "~", ";", "\n", "#", "X",
                       " ", "o", "b", "j", " ", "*", "~", " ">> \o gain \o <<";", "\n", "#", "X",
                       " ", "o", "b", "j", " ", "c", "l", "i", "p", "~", ";", "\n", "#", "X", " ",
                       "o", "b", "j", " ", "d", "a", "c", "~", ";", "\n">>

VolumeCompletion(gain) ==
    Completion(CanvasLine \o ControlLines \o VolumeLines(gain) \o VuLine
               \o FourConnections \o TwoConnections)

VolumeCompletions ==
    { VolumeCompletion(<<"0", ".", "5", "9">>), VolumeCompletion(<<"0", ".", "2", "5", "5">>),
                         VolumeCompletion(<<"0", ".", "1">>),
      VolumeCompletion(<<"0", ".", "8">>) }

\* the message.content of a service that answers with any of these, or with
\* no content at all
AnyCompletions == Completions \cup MarkerCompletions \cup VolumeCompletions \cup {Null}

\* the errors the completion call rejects with: the service's 401 and 429
\* answers and a transport error without a status
ServiceErrors ==
    { Err(<<"4", "0", "1", " ", "I", "n", "c", "o", "r", "r", "e", "c", "t", " ", "A", "P", "I",
            " ", "k", "e", "y", " ", "p", "r", "o", "v", "i", "d", "e", "d">>, 401),
      Err(<<"4", "2", "9", " ", "R", "a", "t", "e", " ", "l", "i", "m", "i", "t", " ", "r", "e",
            "a", "c", "h", "e", "d">>, 429),
      Err(<<"C", "o", "n", "n", "e", "c", "t", "i", "o", "n", " ", "e", "r", "r", "o", "r", ".">>,
            0) }

(***************************************************************************)
(* What the code derives from each completion of the input set, computed   *)
(* once: the rows are indexed by the text the code computes them from      *)
(***************************************************************************)
\* openai.ts 79-106 for one message.content
Derived(messageContent) ==
    LET content == ContentOf(messageContent)
        patch   == PatchOf(content)
    IN  [messageContent |-> messageContent,
         patch |-> patch,
         explanation |-> ExplanationOf(content),
         validation |-> Validation(patch),
         result |-> [patch |-> Trim(patch), explanation |-> Trim(ExplanationOf(content))]]

DerivedRows == {Derived(messageContent) : messageContent \in AnyCompletions}

DerivedFrom(messageContent) ==
    CHOOSE row \in DerivedRows : row.messageContent = messageContent

\* App.tsx 1445-1452 for the result.patch of each of them
AudioRows ==
    {[patch |-> row.result.patch, ok |-> AudioValidation(row.result.patch)] :
        row \in DerivedRows}

AudioValidationOf(patch) == (CHOOSE row \in AudioRows : row.patch = patch).ok

(***************************************************************************)
(* Values kept with the state                                              *)
(***************************************************************************)
\* null for a value that is a record otherwise
Nothing == [isNull |-> TRUE]

\* a Date object, and what JSON.stringify writes for a timestamp: the ISO
\* string of a Date, and a string (the timestamp of a reloaded Patch) as it is
DateObject(ms) == [date |-> ms]
ToJSON(date) == IF "date" \in DOMAIN date THEN [iso |-> date.date] ELSE date

\* JSON.stringify of one errorHistory entry
StringifyEntry(entry) ==
    [error |-> entry.error,
     timestamp |-> ToJSON(entry.timestamp),
     regeneratedPatch |->
        [content |-> entry.regeneratedPatch.content,
         explanation |-> entry.regeneratedPatch.explanation,
         timestamp |-> ToJSON(entry.regeneratedPatch.timestamp)]]

\* JSON.stringify(updated): the text of the array, in which the Dates of every
\* Patch are strings
Stringify(patches) ==
    [json |->
        [i \in 1..Len(patches) |->
            [patches[i] EXCEPT
                !.created = ToJSON(@),
                !.errorHistory = [j \in 1..Len(@) |-> StringifyEntry(@[j])]]]]

\* JSON.parse(savedHistory): the array the text denotes; its timestamps stay
\* strings
Parse(text) == text.json

\* the initial value of `history` (App.tsx 1373-1376)
LoadHistory(storage) ==
    IF storage.pdPatchHistory = Nothing THEN <<>> ELSE Parse(storage.pdPatchHistory)

\* the cycle c awaits the race of its attempt a: neither the completion call
\* nor the timer of that attempt has settled the Promise.race yet
RacePending(c, a) == c \in DOMAIN cycles /\ cycles[c].retryCount = a

\* the cycles function without cycle c
Without(c) == [i \in DOMAIN cycles \ {c} |-> cycles[i]]

\* the cycles function with cycle c set to cyc
With(c, cyc) == [i \in DOMAIN cycles \cup {c} |-> IF i = c THEN cyc ELSE cycles[i]]

(***************************************************************************)
(* The handlers' continuations after `await generatePdPatch(...)`          *)
(***************************************************************************)
\* the Patch handleGenerate builds from a result (App.tsx 1410-1442); the
\* literal `metadata` is the same for every Patch and read nowhere
NewPatch(result, description, ms) ==
    [name |-> ms,
     content |-> result.patch,
     explanation |-> result.explanation,
     description |-> description,
     created |-> DateObject(ms),
     version |-> "1.0",
     errorHistory |-> <<>>]

\* a variant of UpdatedPatch without the spread of the entries the Patch had;
\* C11 holds of the one below and not of this one
UpdatedPatchAlone(captured, errorMessage, result, ms) ==
    [captured EXCEPT !.errorHistory =
        << [error |-> errorMessage,
            timestamp |-> DateObject(ms),
            regeneratedPatch |->
               [content |-> result.patch,
                explanation |-> result.explanation,
                timestamp |-> DateObject(ms)]] >>]

\* the Patch handleRegenerate builds (App.tsx 1500-1514) from the currentPatch
\* it captured when it was called
UpdatedPatch(captured, errorMessage, result, ms) ==
    [captured EXCEPT !.errorHistory =
        << [error |-> errorMessage,
            timestamp |-> DateObject(ms),
            regeneratedPatch |->
               [content |-> result.patch,
                explanation |-> result.explanation,
                timestamp |-> DateObject(ms)]] >> \o @]

\* what an earlier run of the application left under 'pdPatchHistory': one
\* Patch, generated from the completion without the level meter and
\* regenerated once
SavedHistory ==
    LET first  == DerivedFrom(NoVuCompletion).result
        second == DerivedFrom(GoodCompletion).result
    IN  Stringify(<< UpdatedPatch(NewPatch(first, <<" ", "a">>, 0), <<"e">>, second, 0) >>)

\* what 'pdPatchHistory' holds when the application starts
InitialHistories == { Nothing, SavedHistory }

\* a variant of Prepend that keeps the new Patch only; C15 and C17 hold of the
\* one below and not of this one
PrependAlone(prev, newPatch) == <<newPatch>>

\* a variant of Prepend that puts the new Patch last; C17 holds of the one
\* below and not of this one
AppendLast(prev, newPatch) == prev \o <<newPatch>>

\* what handleDownload writes to the .pd file (App.tsx 1478): the content of
\* the selected Patch, as it is
Exported(patch) == patch.content

\* the updater handleGenerate gives setHistory (App.tsx 1457-1458)
Prepend(prev, newPatch) == <<newPatch>> \o prev

\* a variant of Replace that puts the Patch at the head of the list when no
\* Patch has the name; C32 holds of the one below and not of this one
ReplaceOrInsert(prev, name, updatedPatch) ==
    IF \E i \in 1..Len(prev) : prev[i].name = name
    THEN [i \in 1..Len(prev) |-> IF prev[i].name = name THEN updatedPatch ELSE prev[i]]
    ELSE <<updatedPatch>> \o prev

\* the updater handleRegenerate gives setHistory (App.tsx 1519-1522): the
\* captured currentPatch.name finds the Patch to replace
Replace(prev, name, updatedPatch) ==
    [i \in 1..Len(prev) |-> IF prev[i].name = name THEN updatedPatch ELSE prev[i]]

\* what the clock can show when the handler of cycle cyc resumes: the value
\* last read or the next one, and a later one than when the handler was
\* called (the completion call it awaited took more than a millisecond)
ClockAfter(cyc) == {ms \in {now, now + 1} : ms > cyc.since}

\* the record kept of a finished cycle: where it ended (its last attempt, the
\* calls it made, the completions it received, the last validation object and
\* the error its await threw), how generatePdPatch settled (`returned` or
\* `thrown`), the error the handler's catch block got (`caught`) and what
\* became of the result
Finished(cyc, returned, thrown, caught, outcome) ==
    [id |-> cyc.id, kind |-> cyc.kind, retryCount |-> cyc.retryCount, calls |-> cyc.calls,
     passed |-> cyc.passed, content |-> cyc.content, validation |-> cyc.validation,
     raw |-> cyc.raw,
     returned |-> returned, thrown |-> thrown, caught |-> caught, outcome |-> outcome]

\* a variant of SettleGenerate that selects the new Patch before the audio
\* check; C31 holds of the one below and not of this one
SettleGenerateSelectFirst(cyc, returned, thrown) ==
    /\ isGenerating' = FALSE
    /\ UNCHANGED isRegenerating
    /\ IF thrown # Nothing
       THEN /\ showApiSettings' = (showApiSettings \/ Includes(thrown.message, <<"A", "P", "I",
                                                            " ", "k", "e", "y">>))
            /\ done' = Finished(cyc, returned, thrown, thrown, "failed")
            /\ UNCHANGED <<currentPatch, history, localStorage, now>>
       ELSE \E ms \in ClockAfter(cyc) :
            LET newPatch == NewPatch(returned, cyc.prompt, ms)
                updated  == Prepend(history, newPatch)
            IN  /\ now' = ms
                /\ currentPatch' = newPatch
                /\ UNCHANGED showApiSettings
                /\ IF ~AudioValidationOf(returned.patch)
                   THEN /\ done' = Finished(cyc, returned, thrown,
                                  Err(<<"G", "e", "n", "e", "r", "a", "t", "e", "d", " ", "p", "a",
                                        "t", "c", "h", " ", "i", "s", " ", "m", "i", "s", "s", "i",
                                        "n", "g", " ", "c", "r", "i", "t", "i", "c", "a", "l", " ",
                                        "a", "u", "d", "i", "o", " ", "c", "o", "m", "p", "o", "n",
                                        "e", "n", "t", "s">>, 0),
                                  "rejected")
                        /\ UNCHANGED <<history, localStorage>>
                   ELSE /\ history' = updated
                        /\ localStorage' =
                              [localStorage EXCEPT !.pdPatchHistory = Stringify(updated)]
                        /\ done' = Finished(cyc, returned, thrown, Nothing, "stored")

\* handleGenerate from the settlement of generatePdPatch on (App.tsx 1408-1472):
\* `returned` is the result it resolved with, `thrown` the error it rejected
\* with (Nothing for the one that did not happen)
SettleGenerate(cyc, returned, thrown) ==
    /\ isGenerating' = FALSE
    /\ UNCHANGED isRegenerating
    /\ IF thrown # Nothing
       THEN /\ showApiSettings' = (showApiSettings \/ Includes(thrown.message, <<"A", "P", "I",
                                                            " ", "k", "e", "y">>))
            /\ done' = Finished(cyc, returned, thrown, thrown, "failed")
            /\ UNCHANGED <<currentPatch, history, localStorage, now>>
       ELSE IF ~AudioValidationOf(returned.patch)
       THEN /\ done' = Finished(cyc, returned, thrown,
                          Err(<<"G", "e", "n", "e", "r", "a", "t", "e", "d", " ", "p", "a", "t",
                                "c", "h", " ", "i", "s", " ", "m", "i", "s", "s", "i", "n", "g",
                                " ", "c", "r", "i", "t", "i", "c", "a", "l", " ", "a", "u", "d",
                                "i", "o", " ", "c", "o", "m", "p", "o", "n", "e", "n", "t", "s">>,
                                0),
                          "rejected")
            /\ UNCHANGED <<currentPatch, history, localStorage, now, showApiSettings>>
       ELSE \E ms \in ClockAfter(cyc) :
            LET newPatch == NewPatch(returned, cyc.prompt, ms)
                updated  == Prepend(history, newPatch)
            IN  /\ now' = ms
                /\ currentPatch' = newPatch
                /\ history' = updated
                /\ localStorage' = [localStorage EXCEPT !.pdPatchHistory = Stringify(updated)]
                /\ done' = Finished(cyc, returned, thrown, Nothing, "stored")
                /\ UNCHANGED showApiSettings

\* a variant of SettleRegenerate without the finally block: the flag is reset
\* at the end of the try block only; C26 holds of the one below and not of
\* this one
SettleRegenerateNoFinally(cyc, returned, thrown) ==
    /\ isRegenerating' = (thrown # Nothing /\ isRegenerating)
    /\ UNCHANGED <<isGenerating, showApiSettings>>
    /\ IF thrown # Nothing
       THEN /\ done' = Finished(cyc, returned, thrown, thrown, "failed")
            /\ UNCHANGED <<currentPatch, history, localStorage, now>>
       ELSE \E ms \in ClockAfter(cyc) :
            LET updatedPatch == UpdatedPatch(cyc.patch, cyc.errorMessage, returned, ms)
                updated == Replace(history, cyc.patch.name, updatedPatch)
            IN  /\ now' = ms
                /\ currentPatch' = updatedPatch
                /\ history' = updated
                /\ localStorage' = [localStorage EXCEPT !.pdPatchHistory = Stringify(updated)]
                /\ done' = Finished(cyc, returned, thrown, Nothing, "stored")

\* handleRegenerate from the settlement of generatePdPatch on (App.tsx 1497-1532)
SettleRegenerate(cyc, returned, thrown) ==
    /\ isRegenerating' = FALSE
    /\ UNCHANGED <<isGenerating, showApiSettings>>
    /\ IF thrown # Nothing
       THEN /\ done' = Finished(cyc, returned, thrown, thrown, "failed")
            /\ UNCHANGED <<currentPatch, history, localStorage, now>>
       ELSE \E ms \in ClockAfter(cyc) :
            LET updatedPatch == UpdatedPatch(cyc.patch, cyc.errorMessage, returned, ms)
                updated == Replace(history, cyc.patch.name, updatedPatch)
            IN  /\ now' = ms
                /\ currentPatch' = updatedPatch
                /\ history' = updated
                /\ localStorage' = [localStorage EXCEPT !.pdPatchHistory = Stringify(updated)]
                /\ done' = Finished(cyc, returned, thrown, Nothing, "stored")

\* the top-level promise of cycle c settles: the awaiting handler runs to its
\* end and the cycle is over; net and tmrs are the requests and timers left
Settle(c, cyc, returned, thrown, net, tmrs) ==
    /\ IF cyc.kind = "generate"
       THEN SettleGenerate(cyc, returned, thrown)
       ELSE SettleRegenerate(cyc, returned, thrown)
    /\ cycles' = Without(c)
    /\ network' = net
    /\ timers' = tmrs

(***************************************************************************)
(* generatePdPatch (openai.ts 3-146)                                       *)
(***************************************************************************)
\* a rejection passing through an enclosing attempt: `return generatePdPatch(...)`
\* hands the inner promise to the outer one without awaiting it, so the
\* enclosing try/catch does not see the rejection
AdoptRejection(error) == error

RECURSIVE Unwind(_, _)
Unwind(error, frames) ==
    IF frames = 0 THEN error ELSE Unwind(AdoptRejection(error), frames - 1)

\* a variant of GetApiKey that reads the key once per cycle; C6 holds of the
\* one below and not of this one
GetApiKeyOnce(cyc) ==
    IF cyc.request = Nothing THEN localStorage.openai_api_key ELSE cyc.request.apiKey

\* the key an attempt reads from localStorage (openai.ts 4)
GetApiKey(cyc) == localStorage.openai_api_key

\* generatePdPatch(prompt, errorFeedback, retryCount) up to its await, for the
\* frame described by cyc (openai.ts 3-77): the key is read and checked, then
\* the completion call and its timer are started.  `starting` tells the call
\* from a handler apart from the recursive call.
Enter(c, cyc, net, tmrs, starting) ==
    LET apiKey == GetApiKey(cyc)
    IN  IF KeyMissing(apiKey)
        THEN Settle(c, cyc, Nothing, Unwind(Err(<<"A", "P", "I", "_", "K", "E", "Y", "_", "M", "I",
                                                  "S", "S", "I", "N", "G">>, 0), cyc.retryCount),
                    net, tmrs)
        ELSE IF KeyInvalid(apiKey)
        THEN Settle(c, cyc, Nothing, Unwind(Err(<<"A", "P", "I", "_", "K", "E", "Y", "_", "I", "N",
                                                  "V", "A", "L", "I", "D">>, 0), cyc.retryCount),
                    net, tmrs)
        ELSE /\ cycles' = With(c, [cyc EXCEPT
                                !.calls = @ + 1,
                                !.request =
                                    [apiKey |-> apiKey,
                                     retryCount |-> cyc.retryCount,
                                     messages |-> Messages(cyc.prompt, cyc.errorFeedback)]])
             /\ network' = net \cup {[cycle |-> c, attempt |-> cyc.retryCount]}
             /\ timers' = Append(tmrs, [cycle |-> c, attempt |-> cyc.retryCount])
             /\ isGenerating' = (IF starting /\ cyc.kind = "generate" THEN TRUE ELSE isGenerating)
             /\ isRegenerating' =
                    (IF starting /\ cyc.kind = "regenerate" THEN TRUE ELSE isRegenerating)
             /\ UNCHANGED <<currentPatch, history, showApiSettings, localStorage, now>>
             /\ done' = Nothing

\* a variant of Validate that lets every check pass in a repair attempt; C20
\* holds of the one below and not of this one
ValidateLenient(cyc, messageContent) ==
    LET validation == DerivedFrom(messageContent).validation
    IN  [i \in 1..Len(validation) |->
            [validation[i] EXCEPT !.ok = @ \/ cyc.retryCount > 0]]

\* the `validation` object the frame cyc builds for a completion
\* (openai.ts 86-106): the literal reads `patch` and nothing else of the
\* frame, neither retryCount nor prompt nor errorFeedback
Validate(cyc, messageContent) == DerivedFrom(messageContent).validation

\* the code after the await when the completion call won the race
\* (openai.ts 79-127)
Resume(c, cyc, messageContent, net, tmrs) ==
    LET derived     == DerivedFrom(messageContent)
        validation  == Validate(cyc, messageContent)
        seen        == [cyc EXCEPT !.content = messageContent,
                                       !.passed = Append(@, ~SomeMissing(validation)),
                                       !.validation = validation]
    IN  IF ShouldRetry(cyc.retryCount, validation)
        THEN Enter(c, [seen EXCEPT !.retryCount = @ + 1,
                                   !.errorFeedback = RepairFeedback(validation)],
                   net, tmrs, FALSE)
        ELSE Settle(c, seen, derived.result, Nothing, net, tmrs)

\* the await throws (the completion call rejected, or the timer did): the
\* catch block rethrows and the rejection reaches the handler through the
\* enclosing attempts
Fail(c, cyc, error, net, tmrs) ==
    Settle(c, [cyc EXCEPT !.raw = error], Nothing,
           Unwind(CatchError(error), cyc.retryCount), net, tmrs)

(***************************************************************************)
(* User actions                                                            *)
(***************************************************************************)
\* a cycle: the handler call (kind; for handleRegenerate the errorMessage it
\* was called with and the currentPatch it captured) and the innermost frame
\* of generatePdPatch (prompt, errorFeedback, retryCount), here as a handler
\* calls it (retryCount = 0); with them the request of the current attempt,
\* the number of completion calls made, the content of the last completion
\* received and the validation object built for it (empty before the first),
\* per completion received whether it passed every check, the
\* error the await threw, if it did, and the value of the clock when the
\* handler was called
NewCycle(c, kind, prompt_, errorMessage, captured) ==
    [id |-> c, kind |-> kind, prompt |-> prompt_, errorMessage |-> errorMessage,
     patch |-> captured, retryCount |-> 0, errorFeedback |-> errorMessage,
     calls |-> 0, passed |-> <<>>, content |-> Null, validation |-> <<>>,
     request |-> Nothing, raw |-> Nothing, since |-> now]

\* a step that leaves everything as it is (a toast at most)
Nop ==
    /\ done' = Nothing
    /\ UNCHANGED <<prompt, pdErrors, isGenerating, isRegenerating, currentPatch, history,
                   showApiSettings, localStorage, now, cycles, nextCycle, network, timers>>

\* handleGenerate up to its await (App.tsx 1398-1408)
HandleGenerate ==
    /\ done = Nothing
    /\ IF Trim(prompt) = <<>>
       THEN Nop
       ELSE /\ nextCycle <= MaxCycles
            /\ nextCycle' = nextCycle + 1
            /\ pdErrors' = <<>>
            /\ UNCHANGED prompt
            /\ Enter(nextCycle, NewCycle(nextCycle, "generate", prompt, Null, Nothing),
                     network, timers, TRUE)

\* handleRegenerate up to its await (App.tsx 1490-1497)
HandleRegenerate(errorMessage) ==
    /\ done = Nothing
    /\ IF currentPatch = Nothing
       THEN Nop
       ELSE /\ nextCycle <= MaxCycles
            /\ nextCycle' = nextCycle + 1
            /\ pdErrors' = <<>>
            /\ UNCHANGED prompt
            /\ Enter(nextCycle,
                     NewCycle(nextCycle, "regenerate", currentPatch.description,
                              errorMessage, currentPatch),
                     network, timers, TRUE)

\* the 'Generate Patch' button (App.tsx 1982-1984), disabled while isGenerating
ClickGenerate ==
    /\ ~isGenerating
    /\ HandleGenerate

\* Ctrl/Cmd+Enter (App.tsx 1535-1540)
HandleKeyDownEnter == HandleGenerate

\* a variant of the button that is enabled without error text; C14 holds of
\* the one below and not of this one
ClickRegenerateAlways ==
    /\ currentPatch # Nothing
    /\ ~isRegenerating
    /\ HandleRegenerate(pdErrors)

\* the 'Regenerate with Fixes' button (App.tsx 2041, 2073-2075): rendered when
\* a patch is selected, disabled while isRegenerating or without error text
ClickRegenerate ==
    /\ currentPatch # Nothing
    /\ ~isRegenerating
    /\ Trim(pdErrors) # <<>>
    /\ HandleRegenerate(pdErrors)

\* typing in the prompt box (App.tsx 1979), as long as a cycle can still be
\* started that reads the text
SetPrompt(text) ==
    /\ done = Nothing
    /\ nextCycle <= MaxCycles
    /\ prompt' = text
    /\ done' = Nothing
    /\ UNCHANGED <<pdErrors, isGenerating, isRegenerating, currentPatch, history,
                   showApiSettings, localStorage, now, cycles, nextCycle, network, timers>>

\* typing in the error-feedback box, or clearing it (App.tsx 2041-2071), as
\* long as a cycle can still be started that reads the text
SetPdErrors(text) ==
    /\ done = Nothing
    /\ nextCycle <= MaxCycles
    /\ currentPatch # Nothing
    /\ pdErrors' = text
    /\ done' = Nothing
    /\ UNCHANGED <<prompt, isGenerating, isRegenerating, currentPatch, history,
                   showApiSettings, localStorage, now, cycles, nextCycle, network, timers>>

\* clicking a Patch of the history list (App.tsx 1713, 1849, 2111)
SelectPatch(i) ==
    /\ done = Nothing
    /\ i \in 1..Len(history)
    /\ currentPatch' = history[i]
    /\ done' = Nothing
    /\ UNCHANGED <<prompt, pdErrors, isGenerating, isRegenerating, history,
                   showApiSettings, localStorage, now, cycles, nextCycle, network, timers>>

\* the 'New Patch' button (App.tsx 1641-1646)
ClickNewPatch ==
    /\ done = Nothing
    /\ currentPatch' = Nothing
    /\ prompt' = <<>>
    /\ pdErrors' = <<>>
    /\ done' = Nothing
    /\ UNCHANGED <<isGenerating, isRegenerating, history, showApiSettings, localStorage,
                   now, cycles, nextCycle, network, timers>>

\* a variant of clearHistory that leaves localStorage alone; C16 holds of the
\* one below and not of this one
ClearHistoryInMemory ==
    /\ done = Nothing
    /\ history' = <<>>
    /\ done' = Nothing
    /\ UNCHANGED <<prompt, pdErrors, isGenerating, isRegenerating, currentPatch, localStorage,
                   showApiSettings, now, cycles, nextCycle, network, timers>>

\* clearHistory (App.tsx 1576-1579)
ClearHistory ==
    /\ done = Nothing
    /\ history' = <<>>
    /\ localStorage' = [localStorage EXCEPT !.pdPatchHistory = Nothing]
    /\ done' = Nothing
    /\ UNCHANGED <<prompt, pdErrors, isGenerating, isRegenerating, currentPatch,
                   showApiSettings, now, cycles, nextCycle, network, timers>>

\* handleApiKeySubmit with `apiKey` typed into the form of the API settings
\* dialog (App.tsx 1557-1574), as long as a cycle can still read the key.
\* The user who finds the dialog closed opens it for the submission
\* (App.tsx 1828, 1939) and closes it again when the key is refused
\* (App.tsx 2197, 2231).
HandleApiKeySubmit(apiKey) ==
    /\ done = Nothing
    /\ nextCycle <= MaxCycles \/ cycles # <<>>
    /\ IF apiKey = <<>> \/ ~StartsWith(apiKey, <<"s", "k", "-">>)
       THEN UNCHANGED <<localStorage, showApiSettings>>
       ELSE /\ localStorage' = [localStorage EXCEPT !.openai_api_key = apiKey]
            /\ showApiSettings' = FALSE
    /\ done' = Nothing
    /\ UNCHANGED <<prompt, pdErrors, isGenerating, isRegenerating, currentPatch, history,
                   now, cycles, nextCycle, network, timers>>

(***************************************************************************)
(* The completion service and the timers                                   *)
(***************************************************************************)
\* `timers` without the timer of attempt a of cycle c: once the completion
\* call has settled the race, the expiry of that timer rejects a settled
\* promise and changes nothing
Disarm(c, a) == SelectSeq(timers, LAMBDA t : t # [cycle |-> c, attempt |-> a])

\* a request whose race is over is answered or fails: nobody awaits it
Discard(call) ==
    /\ network' = network \ {call}
    /\ done' = [discarded |-> call]
    /\ UNCHANGED <<isGenerating, isRegenerating, currentPatch, history, showApiSettings,
                   localStorage, now, cycles, timers>>

\* the service answers the request `call` with a completion
NetworkRespond(call, messageContent) ==
    /\ done = Nothing
    /\ call \in network
    /\ UNCHANGED <<prompt, pdErrors, nextCycle>>
    /\ IF RacePending(call.cycle, call.attempt)
       THEN Resume(call.cycle, cycles[call.cycle], messageContent,
                   network \ {call}, Disarm(call.cycle, call.attempt))
       ELSE Discard(call)

\* the request `call` fails with `error`
NetworkFail(call, error) ==
    /\ done = Nothing
    /\ call \in network
    /\ UNCHANGED <<prompt, pdErrors, nextCycle>>
    /\ IF RacePending(call.cycle, call.attempt)
       THEN Fail(call.cycle, cycles[call.cycle], error,
                 network \ {call}, Disarm(call.cycle, call.attempt))
       ELSE Discard(call)

\* the timer of a pending race expires, the one armed first (all are armed
\* for the same 30 s): the race rejects; the request stays with the service
TimerFire ==
    /\ done = Nothing
    /\ timers # <<>>
    /\ UNCHANGED <<prompt, pdErrors, nextCycle>>
    /\ LET timer == Head(timers)
       IN  Fail(timer.cycle, cycles[timer.cycle], TimeoutError, network, Tail(timers))

\* the page is loaded again: the component starts from its initial state
\* (App.tsx 1369-1387) with what localStorage holds; the calls that were
\* awaited and their timers are gone with the old page
Reload ==
    /\ done = Nothing
    /\ prompt' = <<>>
    /\ pdErrors' = <<>>
    /\ isGenerating' = FALSE
    /\ isRegenerating' = FALSE
    /\ currentPatch' = Nothing
    /\ history' = LoadHistory(localStorage)
    /\ showApiSettings' = FALSE
    /\ cycles' = <<>>
    /\ network' = {}
    /\ timers' = <<>>
    /\ done' = Nothing
    /\ UNCHANGED <<localStorage, now, nextCycle>>

\* the record of the last step is dropped
Forget ==
    /\ done # Nothing
    /\ done' = Nothing
    /\ UNCHANGED <<prompt, pdErrors, isGenerating, isRegenerating, currentPatch, history,
                   showApiSettings, localStorage, now, cycles, nextCycle, network, timers>>

(***************************************************************************)
(* Specification                                                           *)
(***************************************************************************)
Init ==
    /\ prompt = <<>>
    /\ pdErrors = <<>>
    /\ isGenerating = FALSE
    /\ isRegenerating = FALSE
    /\ currentPatch = Nothing
    /\ showApiSettings = FALSE
    /\ localStorage \in [openai_api_key : InitialKeys, pdPatchHistory : InitialHistories]
    /\ history = LoadHistory(localStorage)
    /\ now = 0
    /\ cycles = <<>>
    /\ nextCycle = 1
    /\ network = {}
    /\ timers = <<>>
    /\ done = Nothing

Next ==
    \/ ClickGenerate
    \/ HandleKeyDownEnter
    \/ ClickRegenerate
    \/ \E text \in Prompts : SetPrompt(text)
    \/ \E text \in ErrorTexts : SetPdErrors(text)
    \/ \E i \in 1..Len(history) : SelectPatch(i)
    \/ ClickNewPatch
    \/ ClearHistory
    \/ \E apiKey \in KeyInputs : HandleApiKeySubmit(apiKey)
    \/ \E call \in network : \E messageContent \in Completions :
          NetworkRespond(call, messageContent)
    \/ \E call \in network : \E error \in ServiceErrors : NetworkFail(call, error)
    \/ TimerFire
    \/ Reload
    \/ Forget

Spec == Init /\ [][Next]_vars

(***************************************************************************)
(* The application with the 'View Changes' button                          *)
(***************************************************************************)
\* handleViewCode (App.tsx 1581-1583)
HandleViewCode(content) ==
    /\ done = Nothing
    /\ currentPatch' =
          (IF currentPatch # Nothing THEN [currentPatch EXCEPT !.content = content]
           ELSE Nothing)
    /\ done' = Nothing
    /\ UNCHANGED <<prompt, pdErrors, isGenerating, isRegenerating, history,
                   showApiSettings, localStorage, now, cycles, nextCycle, network, timers>>

\* the 'View Changes' button of an entry of the selected Patch, as the
\* RegenerationHistory component of App.tsx 2340-2402 renders it for the
\* onViewCode it is given (App.tsx 1810-1813).  The component of the same name
\* that App declares (App.tsx 1586-1610) is the one App renders, and it has no
\* such button: Next is the application as it is, NextViewCode the
\* application with the handler in use.
ClickViewChanges ==
    /\ currentPatch # Nothing
    /\ \E j \in 1..Len(currentPatch.errorHistory) :
          HandleViewCode(currentPatch.errorHistory[j].regeneratedPatch.content)

NextViewCode == Next \/ ClickViewChanges

SpecViewCode == Init /\ [][NextViewCode]_vars

(***************************************************************************)
(* The application with a runtime that lets every timer expire             *)
(***************************************************************************)
\* setTimeout (openai.ts 75-77): the timer of a pending race expires after
\* 30 s unless the race was settled before, so no race stays pending for
\* ever.  (The record of the last step is dropped before the next step.)
SpecLive == Init /\ [][Next]_vars /\ WF_vars(TimerFire) /\ WF_vars(Forget)

(***************************************************************************)
(* Generations with a service that answers with any completion: the        *)
(* splitter and the validator on texts of every shape                      *)
(***************************************************************************)
NextAnyCompletion ==
    \/ \E text \in Prompts : SetPrompt(text)
    \/ ClickGenerate
    \/ \E call \in network : \E messageContent \in AnyCompletions :
          NetworkRespond(call, messageContent)
    \/ Forget

SpecAnyCompletion == Init /\ [][NextAnyCompletion]_vars

(***************************************************************************)
(* Properties                                                              *)
(***************************************************************************)
\* the last step ended a cycle
Ended == "outcome" \in DOMAIN done

\* the last step answered a request nobody awaited
Discarded == "discarded" \in DOMAIN done

\* the result generatePdPatch builds from a completion, and whether the patch
\* body of the completion passes every check of the validator
ResultOf(messageContent) == DerivedFrom(messageContent).result

AllPass(messageContent) ==
    LET validation == DerivedFrom(messageContent).validation
    IN  \A i \in 1..Len(validation) : validation[i].ok

\* C1: in a cycle started by a handler (retryCount 0) every attempt runs with
\* retryCount 0, 1 or 2 and at most 3 completion calls are made, whatever the
\* completions contain.
C1_AttemptsBounded ==
    /\ \A c \in DOMAIN cycles :
          /\ cycles[c].retryCount \in 0..2
          /\ cycles[c].request.retryCount = cycles[c].retryCount
          /\ cycles[c].calls = cycles[c].retryCount + 1
          /\ cycles[c].calls <= 3
    /\ Ended => /\ done.retryCount \in 0..2
                /\ done.calls <= 3

\* a cycle that ended after three completion calls, at retryCount 2
C1_Witness ==
    /\ Ended
    /\ done.calls = 3
    /\ done.retryCount = 2

\* C2: when the patch body of attempt 0 passes every check, the cycle makes
\* exactly one completion call and returns the result of that attempt: no
\* cycle reaches attempt 1 after a first body that passed.
C2_FirstBodyPasses ==
    /\ \A c \in DOMAIN cycles :
          cycles[c].retryCount = 1 => ~AllPass(cycles[c].content)
    /\ Ended /\ Len(done.passed) >= 1 /\ done.retryCount >= 1
          => ~done.passed[1]
    /\ Ended /\ done.retryCount = 0 /\ done.content # Null
             /\ AllPass(done.content)
          => /\ done.calls = 1
             /\ done.thrown = Nothing
             /\ done.returned = ResultOf(done.content)

\* a cycle that ended after one call whose body passed every check
C2_Witness ==
    /\ Ended
    /\ done.content = GoodCompletion
    /\ done.calls = 1
    /\ done.returned = ResultOf(GoodCompletion)

\* C3: when the bodies of attempts 0, 1 and 2 each fail a check, the cycle
\* stops after the third completion call and returns the result of attempt 2
\* without an error; a result that fails a check is returned by attempt 2
\* only, and the result a cycle returns is that of the last completion it
\* received.
C3_ExhaustedReturnsLast ==
    /\ \A c \in DOMAIN cycles : Len(cycles[c].passed) <= 2
    /\ Ended /\ Len(done.passed) = 3 /\ ~done.passed[3]
          => /\ done.calls = 3
             /\ done.thrown = Nothing
             /\ done.returned = ResultOf(done.content)
    /\ Ended /\ done.returned # Nothing
          => /\ done.returned = ResultOf(done.content)
             /\ Len(done.passed) = done.retryCount + 1
             /\ \A i \in 1..(Len(done.passed) - 1) : ~done.passed[i]
             /\ ~AllPass(done.content) => done.retryCount = 2

\* a cycle that returned the result of its third failing body
C3_Witness ==
    /\ Ended
    /\ done.passed = <<FALSE, FALSE, FALSE>>
    /\ done.content = FewConnectionsCompletion
    /\ done.returned = ResultOf(FewConnectionsCompletion)
    /\ done.thrown = Nothing

\* the names of the validator's components, in the order of its keys
ComponentNames ==
    << <<"S", "t", "a", "r", "t", "T", "o", "g", "g", "l", "e">>, <<"D", "a", "c">>, <<"V", "o",
         "l", "u", "m", "e", "C", "o", "n", "t", "r", "o", "l">>, <<"V", "u", "M", "e", "t", "e",
         "r">>, <<"I", "n", "s", "t", "r", "u", "c", "t", "i", "o", "n", "s">>,
       <<"L", "o", "a", "d", "B", "a", "n", "g">>, <<"M", "e", "t", "r", "o">>, <<"C", "o", "n",
         "n", "e", "c", "t", "i", "o", "n", "s">>, <<"A", "u", "d", "i", "o", "C", "h", "a", "i",
         "n">>, <<"P", "r", "o", "p", "e", "r", "C", "o", "n", "n", "e", "c", "t", "i", "o", "n",
         "s">>,
       <<"S", "a", "f", "e", "V", "o", "l", "u", "m", "e">> >>

RECURSIVE FailedNames(_, _)
FailedNames(validation, i) ==
    IF i > Len(validation) THEN <<>>
    ELSE (IF validation[i].ok THEN <<>> ELSE <<ComponentNames[i]>>)
         \o FailedNames(validation, i + 1)

\* the feedback turn expected after a completion whose body failed a check
ExpectedFeedback(messageContent) ==
    <<"E", "r", "r", "o", "r", "s", " ", "t", "o", " ", "f", "i", "x", ":", " ", "P", "l", "e",
      "a", "s", "e", " ", "i", "n", "c", "l", "u", "d", "e", " ", "m", "i", "s", "s", "i", "n",
      "g", " ", "c", "o", "m", "p", "o", "n", "e", "n", "t", "s", ":", " ">>
    \o Join(FailedNames(DerivedFrom(messageContent).validation, 1), <<",", " ">>)

\* C4: an attempt with retryCount < 2 whose body fails a check is followed by
\* an attempt with retryCount + 1 whose request carries a feedback turn that
\* names the checks that failed in the preceding attempt, those only, in the
\* order of the validator's keys (hasVuMeter and hasProperConnections failing
\* give 'VuMeter, ProperConnections').
C4_RepairFeedback ==
    /\ \A c \in DOMAIN cycles :
          LET cyc == cycles[c]
          IN  cyc.retryCount >= 1 =>
                 /\ cyc.request.retryCount = Len(cyc.passed)
                 /\ ~AllPass(cyc.content)
                 /\ cyc.request.messages = <<cyc.prompt, ExpectedFeedback(cyc.content)>>
                 /\ cyc.content = FewConnectionsCompletion =>
                       cyc.request.messages[2] =
                          <<"E", "r", "r", "o", "r", "s", " ", "t", "o", " ", "f", "i", "x", ":",
                            " ", "P", "l", "e", "a", "s", "e", " ", "i", "n", "c", "l", "u", "d",
                            "e", " ", "m", "i", "s", "s", "i", "n", "g", " ", "c", "o", "m", "p",
                            "o", "n", "e", "n", "t", "s", ":", " ", "V", "u", "M", "e", "t", "e",
                            "r", ",", " ", "P", "r", "o", "p", "e", "r", "C", "o", "n", "n", "e",
                            "c", "t", "i", "o", "n", "s">>
    /\ Ended /\ done.returned # Nothing /\ ~AllPass(done.content)
          => done.retryCount = 2

\* attempt 1 in flight after a first body without VU meter and with too few
\* connections
C4_Witness ==
    \E c \in DOMAIN cycles :
       /\ cycles[c].retryCount = 1
       /\ cycles[c].content = FewConnectionsCompletion
       /\ Len(cycles[c].request.messages) = 2

\* the error generatePdPatch rejects with when its completion call fails with
\* `raw`: Unauthorized, RateLimited, or the failure itself
Classified(raw) ==
    IF raw.status = 401
    THEN [message |-> <<"I", "n", "v", "a", "l", "i", "d", " ", "A", "P", "I", " ", "k", "e", "y",
                        ".", " ", "P", "l", "e", "a", "s", "e", " ", "c", "h", "e", "c", "k", " ",
                        "y", "o", "u", "r", " ", "O", "p", "e", "n", "A", "I", " ", "A", "P", "I",
                        " ", "k", "e", "y", " ", "i", "n", " ", "s", "e", "t", "t", "i", "n", "g",
                        "s">>,
          status |-> 0]
    ELSE IF raw.status = 429
    THEN [message |-> <<"A", "P", "I", " ", "r", "a", "t", "e", " ", "l", "i", "m", "i", "t", " ",
                        "e", "x", "c", "e", "e", "d", "e", "d", ".", " ", "P", "l", "e", "a", "s",
                        "e", " ", "t", "r", "y", " ", "a", "g", "a", "i", "n", " ", "l", "a", "t",
                        "e", "r">>, status |-> 0]
    ELSE raw

\* C5: when the completion call of an attempt fails (401, 429, timeout or
\* other), the cycle ends there: no further completion call, no result, and
\* the handler gets the classified error of that failure, the same whatever
\* the number of enclosing attempts it passed through.
C5_FailureEndsCycle ==
    Ended /\ done.raw # Nothing =>
       /\ done.returned = Nothing
       /\ done.thrown = Classified(done.raw)
       /\ done.caught = done.thrown
       /\ done.calls = done.retryCount + 1
       /\ done.id \notin DOMAIN cycles
       /\ \A call \in network :
             call.cycle = done.id =>
                /\ call.attempt = done.retryCount
                /\ done.raw.message = <<"O", "p", "e", "n", "A", "I", " ", "r", "e", "q", "u", "e",
                                        "s", "t", " ", "t", "i", "m", "e", "o", "u", "t">>
       /\ \A i \in 1..Len(timers) : timers[i].cycle # done.id

\* a cycle ended by a 429 of the completion call of attempt 2
C5_Witness ==
    /\ Ended
    /\ done.raw # Nothing
    /\ done.raw.status = 429
    /\ done.retryCount = 2
    /\ done.thrown.message = <<"A", "P", "I", " ", "r", "a", "t", "e", " ", "l", "i", "m", "i",
                               "t", " ", "e", "x", "c", "e", "e", "d", "e", "d", ".", " ", "P",
                               "l", "e", "a", "s", "e", " ", "t", "r", "y", " ", "a", "g", "a",
                               "i", "n", " ", "l", "a", "t", "e", "r">>

\* a step in which a handler calls generatePdPatch
Called == nextCycle' = nextCycle + 1

\* C6: a call of generatePdPatch made while no key is stored, or a key that
\* does not start with 'sk-', rejects with 'API_KEY_MISSING', respectively
\* 'API_KEY_INVALID', and the cycle makes no completion call; every attempt
\* that starts a completion call does so with the key stored at that moment,
\* a key that starts with 'sk-'.
C6_KeyChecked ==
    [][LET apiKey == localStorage.openai_api_key
       IN  /\ Called /\ (apiKey = Null \/ apiKey = <<>>)
                => /\ Ended'
                   /\ done'.id = nextCycle
                   /\ done'.thrown = [message |-> <<"A", "P", "I", "_", "K", "E", "Y", "_", "M",
                                                    "I", "S", "S", "I", "N", "G">>, status |-> 0]
                   /\ done'.returned = Nothing
                   /\ done'.calls = 0
                   /\ network' = network
           /\ Called /\ apiKey # Null /\ apiKey # <<>> /\ ~StartsWith(apiKey, <<"s", "k", "-">>)
                => /\ Ended'
                   /\ done'.id = nextCycle
                   /\ done'.thrown = [message |-> <<"A", "P", "I", "_", "K", "E", "Y", "_", "I",
                                                    "N", "V", "A", "L", "I", "D">>, status |-> 0]
                   /\ done'.returned = Nothing
                   /\ done'.calls = 0
                   /\ network' = network
           /\ \A c \in DOMAIN cycles' :
                 (c \notin DOMAIN cycles \/ cycles'[c].calls > cycles[c].calls)
                    => /\ cycles'[c].request.apiKey = apiKey
                       /\ StartsWith(apiKey, <<"s", "k", "-">>)
                       /\ [cycle |-> c, attempt |-> cycles'[c].retryCount] \in network'
      ]_vars

\* a cycle that ended without a completion call on a stored key 'pk'
C6_Witness ==
    /\ Ended
    /\ localStorage.openai_api_key = <<"p", "k">>
    /\ done.thrown.message = <<"A", "P", "I", "_", "K", "E", "Y", "_", "I", "N", "V", "A", "L",
                               "I", "D">>
    /\ done.calls = 0

\* C7: the completion call of an attempt races a timer; when the timer
\* settles first the cycle ends with the error 'OpenAI request timeout' while
\* the request stays with the service, and the answer to a request whose
\* cycle is over changes neither the cycles, nor currentPatch, nor the
\* history: it returns no result and starts no attempt.  (A request also
\* ends when the page is loaded again.)
C7_TimerWinsRace ==
    [][/\ timers # <<>> /\ timers' = Tail(timers) /\ network' = network
          => /\ Ended'
             /\ done'.id = Head(timers).cycle
             /\ done'.retryCount = Head(timers).attempt
             /\ done'.thrown = [message |-> <<"O", "p", "e", "n", "A", "I", " ", "r", "e", "q",
                                              "u", "e", "s", "t", " ", "t", "i", "m", "e", "o",
                                              "u", "t">>, status |-> 0]
             /\ done'.returned = Nothing
             /\ Head(timers).cycle \notin DOMAIN cycles'
             /\ Head(timers) \in network'
       /\ \A call \in network :
             call.cycle \notin DOMAIN cycles /\ call \notin network' /\ ~Reload
                => /\ done' = [discarded |-> call]
                   /\ network' = network \ {call}
                   /\ UNCHANGED <<cycles, timers, nextCycle, currentPatch, history,
                                  localStorage, isGenerating, isRegenerating>>
      ]_vars

\* the answer to a request whose attempt had timed out was discarded, with a
\* patch selected and in the history
C7_Witness ==
    /\ Discarded
    /\ done.discarded.cycle \notin DOMAIN cycles
    /\ currentPatch # Nothing
    /\ history # <<>>

\* the patches that hold an audio source, a safe volume, a dac~ and six
\* '#X connect' at least, among the patches of the results
Audible ==
    {patch \in {ResultOf(messageContent).patch : messageContent \in Completions} :
        /\ \/ Includes(patch, <<"o", "s", "c", "~">>)
           \/ Includes(patch, <<"p", "h", "a", "s", "o", "r", "~">>)
           \/ Includes(patch, <<"n", "o", "i", "s", "e", "~">>)
        /\ \/ Includes(patch, <<"*", "~", " ", "0", ".", "5">>)
           \/ Includes(patch, <<"*", "~", " ", "0", ".", "2", "5">>)
        /\ Includes(patch, <<"d", "a", "c", "~">>)
        /\ CountLiteral(patch, <<"#", "X", " ", "c", "o", "n", "n", "e", "c", "t">>) >= 6}

\* C8 (as the code has it): handleGenerate stores the Patch built from the
\* result of a cycle, validated or not, exactly when the patch holds an audio
\* source, a safe volume, a dac~ and six '#X connect': then the Patch is
\* selected and put at the head of the history; otherwise the generation
\* fails with 'Generated patch is missing critical audio components' and
\* currentPatch, the history and its stored copy stay as they were.
C8_StoredWhenAudible ==
    [][Ended' /\ done'.kind = "generate" /\ done'.returned # Nothing
          => IF done'.returned.patch \in Audible
             THEN /\ done'.outcome = "stored"
                  /\ done'.caught = Nothing
                  /\ Len(history') = Len(history) + 1
                  /\ Tail(history') = history
                  /\ history'[1].content = done'.returned.patch
                  /\ history'[1].explanation = done'.returned.explanation
                  /\ history'[1].description = cycles[done'.id].prompt
                  /\ currentPatch' = history'[1]
             ELSE /\ done'.outcome = "rejected"
                  /\ done'.caught =
                        [message |-> <<"G", "e", "n", "e", "r", "a", "t", "e", "d", " ", "p", "a",
                                       "t", "c", "h", " ", "i", "s", " ", "m", "i", "s", "s", "i",
                                       "n", "g", " ", "c", "r", "i", "t", "i", "c", "a", "l", " ",
                                       "a", "u", "d", "i", "o", " ", "c", "o", "m", "p", "o", "n",
                                       "e", "n", "t", "s">>,
                         status |-> 0]
                  /\ UNCHANGED <<currentPatch, history, localStorage>>
      ]_vars

\* a generation that exhausted its attempts and whose unvalidated result was
\* stored
C8_Witness ==
    /\ Ended
    /\ done.kind = "generate"
    /\ done.passed = <<FALSE, FALSE, FALSE>>
    /\ done.outcome = "stored"
    /\ history # <<>>
    /\ history[1].content = done.returned.patch

\* C8 (as the specification has it): the unvalidated result of a generation
\* that exhausted its attempts is stored in the history.
C8_AsSpecified ==
    Ended /\ done.kind = "generate" /\ done.returned # Nothing
          /\ done.retryCount = 2 /\ ~AllPass(done.content)
       => /\ done.outcome = "stored"
          /\ history # <<>>
          /\ history[1].content = done.returned.patch

\* C9 (as the specification has it): a regeneration makes exactly one
\* completion call and never a repair attempt.
C9_AsSpecified ==
    /\ \A c \in DOMAIN cycles :
          cycles[c].kind = "regenerate" => cycles[c].retryCount = 0 /\ cycles[c].calls = 1
    /\ Ended /\ done.kind = "regenerate" /\ done.returned # Nothing
          => done.calls = 1

\* C10 (as the specification has it): at most one cycle is in flight.
C10_AsSpecified == Cardinality(DOMAIN cycles) <= 1

(***************************************************************************)
(* The Revision Store: errorHistory, History and its persisted copy        *)
(***************************************************************************)
\* the step ends a handleRegenerate call that stored its result
RegenerationStored == Ended' /\ done'.kind = "regenerate" /\ done'.outcome = "stored"

\* the step ends a handleGenerate call that stored its result
GenerationStored == Ended' /\ done'.kind = "generate" /\ done'.outcome = "stored"

\* C11: a handleRegenerate call that succeeds leaves History as long as it
\* was and puts one new entry, with the error text of the call and the
\* regenerated content, in front of the errorHistory the target Patch (the
\* Patch of History with the name of the Patch the call was made for) had just
\* before; the entries it had follow, unchanged and in their order, and the
\* errorHistory of every other Patch is as it was, whatever happened while the
\* regeneration was in flight.
C11_EntryPrepended ==
    [][RegenerationStored =>
         LET cyc == cycles[done'.id]
         IN  /\ Len(history') = Len(history)
             /\ \A i \in 1..Len(history) :
                   IF history[i].name = cyc.patch.name
                   THEN /\ history'[i].errorHistory # <<>>
                        /\ Head(history'[i].errorHistory).error = cyc.errorMessage
                        /\ Head(history'[i].errorHistory).regeneratedPatch.content
                              = done'.returned.patch
                        /\ Tail(history'[i].errorHistory) = history[i].errorHistory
                   ELSE history'[i].errorHistory = history[i].errorHistory
      ]_vars

\* a regeneration was stored for a Patch of History that had an entry before,
\* and that entry is the second one now, after a generation that ended while
\* the regeneration was in flight had put a Patch in front
C11_Witness ==
    /\ Ended
    /\ done.kind = "regenerate"
    /\ done.outcome = "stored"
    /\ Len(history) = 2
    /\ Len(history[2].errorHistory) = 2
    /\ history[2].errorHistory[2].error = <<"e">>
    /\ history[2].errorHistory[1].regeneratedPatch.content = done.returned.patch
    /\ history[1].errorHistory = <<>>

\* C12 (as the specification has it): a successful regeneration puts the
\* regenerated content in the regeneratedPatch of the new entry and leaves the
\* content of every Patch of History as it was.
C12_AsSpecified ==
    [][RegenerationStored =>
         /\ Len(history') = Len(history)
         /\ \A i \in 1..Len(history) :
               /\ history'[i].content = history[i].content
               /\ history[i].name = cycles[done'.id].patch.name
                     => Head(history'[i].errorHistory).regeneratedPatch.content
                           = done'.returned.patch
      ]_vars

\* the step ends a handleRegenerate call, with a result or with an error
RegenerationEnded == Ended' /\ done'.kind = "regenerate"

\* the Patch and the error text of the handleRegenerate call the step ends: a
\* call in flight, or one that begins and ends in this step (it found no
\* usable key)
EndingRegeneration ==
    IF done'.id \in DOMAIN cycles
    THEN [patch |-> cycles[done'.id].patch, errorMessage |-> cycles[done'.id].errorMessage]
    ELSE [patch |-> currentPatch, errorMessage |-> pdErrors]

\* C13 (as the specification has it): every manual repair attempt made for a
\* Patch of History is recorded as a new first entry of that Patch's
\* errorHistory, with the regenerated content when the regeneration succeeded
\* and without it when it failed.
C13_AsSpecified ==
    [][RegenerationEnded =>
         \A i \in 1..Len(history) :
            history[i].name = EndingRegeneration.patch.name
               => /\ i <= Len(history')
                  /\ Len(history'[i].errorHistory) = Len(history[i].errorHistory) + 1
                  /\ Head(history'[i].errorHistory).error = EndingRegeneration.errorMessage
                  /\ done'.outcome = "stored"
                        => Head(history'[i].errorHistory).regeneratedPatch.content
                              = done'.returned.patch
      ]_vars

\* the errorHistory entries of the Patches of a list
EntriesOf(patches) ==
    UNION {{patches[i].errorHistory[j] : j \in 1..Len(patches[i].errorHistory)} :
              i \in 1..Len(patches)}

\* C14: every ErrorHistoryEntry of every Patch of History, of the selected
\* Patch and of the persisted History has an error text that is neither empty
\* nor made of white space only, and so has the error text of every
\* regeneration in flight.
C14_ErrorNeverEmpty ==
    /\ \A entry \in EntriesOf(history) \cup EntriesOf(LoadHistory(localStorage)) :
          Trim(entry.error) # <<>>
    /\ currentPatch # Nothing
          => \A j \in 1..Len(currentPatch.errorHistory) :
                Trim(currentPatch.errorHistory[j].error) # <<>>
    /\ \A c \in DOMAIN cycles :
          cycles[c].kind = "regenerate" => Trim(cycles[c].errorMessage) # <<>>

\* the first call of the run, a regeneration, was stored: the new entry of the
\* Patch has the error text typed, in front of the entry the Patch had
C14_Witness ==
    /\ Ended
    /\ done.kind = "regenerate"
    /\ done.outcome = "stored"
    /\ nextCycle = 2
    /\ history # <<>>
    /\ Len(history[1].errorHistory) = 2
    /\ history[1].errorHistory[1].error = <<"n", "o", " ", "d", "s", "p">>

\* C15: no step but clearHistory makes History shorter or takes a Patch out of
\* it: the Patches History had are all there after the step, under their names
\* and in their order, behind the Patches the step added.  A step that ends no
\* regeneration leaves each of them as it was (the page loaded again: as it
\* was persisted), and a regeneration leaves all but the Patch it was made for
\* as they were, whether the generation or regeneration succeeded or failed.
C15_HistoryKept ==
    [][ClearHistory \/
        LET added == Len(history') - Len(history)
        IN  /\ added >= 0
            /\ \A i \in 1..Len(history) :
                  /\ history'[i + added].name = history[i].name
                  /\ IF Reload THEN Stringify(<<history'[i + added]>>) = Stringify(<<history[i]>>)
                     ELSE \/ RegenerationStored /\ history[i].name = cycles[done'.id].patch.name
                          \/ history'[i + added] = history[i]
      ]_vars

\* a regeneration failed while History held two Patches: both are there
C15_Witness ==
    /\ Ended
    /\ done.kind = "regenerate"
    /\ done.outcome = "failed"
    /\ Len(history) = 2
    /\ history[1].name # history[2].name

\* the History a reload would start with
Restored == LoadHistory(localStorage)

\* C16: in every state, what is persisted under 'pdPatchHistory' is
\* JSON.stringify of the in-memory History (or nothing at all when History is
\* empty), so that a reload restores the Patches of History in their order
\* with every field as it is, except that each Date (created, timestamp) comes
\* back as the string JSON.stringify wrote for it.
C16_PersistedHistory ==
    /\ Restored = Parse(Stringify(history))
    /\ localStorage.pdPatchHistory = Nothing => history = <<>>
    /\ Len(Restored) = Len(history)
    /\ \A i \in 1..Len(history) :
          /\ \A field \in {"name", "content", "explanation", "description", "version"} :
                Restored[i][field] = history[i][field]
          /\ Restored[i].created = ToJSON(history[i].created)
          /\ Len(Restored[i].errorHistory) = Len(history[i].errorHistory)
          /\ \A j \in 1..Len(history[i].errorHistory) :
                LET kept  == Restored[i].errorHistory[j]
                    entry == history[i].errorHistory[j]
                IN  /\ kept.error = entry.error
                    /\ kept.timestamp = ToJSON(entry.timestamp)
                    /\ kept.regeneratedPatch.content = entry.regeneratedPatch.content
                    /\ kept.regeneratedPatch.explanation = entry.regeneratedPatch.explanation
                    /\ kept.regeneratedPatch.timestamp = ToJSON(entry.regeneratedPatch.timestamp)

\* a regeneration was stored for a Patch that had been read from localStorage:
\* its new entry holds a Date, the entry it had and `created` hold strings, and
\* a reload would not restore the History as it is
C16_Witness ==
    /\ Ended
    /\ done.kind = "regenerate"
    /\ done.outcome = "stored"
    /\ history # <<>>
    /\ Len(history[1].errorHistory) = 2
    /\ "date" \in DOMAIN history[1].errorHistory[1].timestamp
    /\ "iso" \in DOMAIN history[1].errorHistory[2].timestamp
    /\ "iso" \in DOMAIN history[1].created
    /\ Restored # history

\* C16 (as the specification has it): the persisted collection equals the
\* in-memory History, an absent key counting as the empty History: a reload
\* restores exactly the current History.
C16_AsSpecified == Restored = history

\* the milliseconds of a timestamp, a Date or the string written for one
Millis(timestamp) ==
    IF "date" \in DOMAIN timestamp THEN timestamp.date ELSE timestamp.iso

\* C17: a handleGenerate call that succeeds makes History one Patch longer:
\* the new Patch is first, has the returned patch as content, the prompt the
\* call was made with as description and an empty errorHistory, and is the
\* selected Patch; the Patches History had follow, each as it was and in their
\* order, none of them created later than the new one.
C17_NewPatchFirst ==
    [][GenerationStored =>
         LET cyc == cycles[done'.id]
         IN  /\ Len(history') = Len(history) + 1
             /\ history'[1].content = done'.returned.patch
             /\ history'[1].explanation = done'.returned.explanation
             /\ history'[1].description = cyc.prompt
             /\ history'[1].errorHistory = <<>>
             /\ currentPatch' = history'[1]
             /\ Tail(history') = history
             /\ \A i \in 1..Len(history) :
                   Millis(history[i].created) <= Millis(history'[1].created)
      ]_vars

\* a generation was stored in front of two Patches, after the prompt box had
\* been emptied while the call was in flight
C17_Witness ==
    /\ Ended
    /\ done.kind = "generate"
    /\ done.outcome = "stored"
    /\ Len(history) = 3
    /\ history[1].description = <<" ", "a">>
    /\ prompt = <<>>

(***************************************************************************)
(* The Structural Validator                                                *)
(***************************************************************************)
\* the validation objects the state holds: the last one of each cycle in
\* flight and the last one of the cycle that just ended, each with the
\* message.content it was built for, the handler that asked and the retryCount
\* of the attempt that built it (a cycle in flight has gone on to the next
\* attempt since)
Reports ==
    {[content |-> cycles[c].content, validation |-> cycles[c].validation,
      kind |-> cycles[c].kind, retryCount |-> cycles[c].retryCount - 1]
        : c \in {c \in DOMAIN cycles : cycles[c].validation # <<>>}}
    \cup (IF Ended /\ done.validation # <<>>
          THEN {[content |-> done.content, validation |-> done.validation,
                 kind |-> done.kind, retryCount |-> done.retryCount]}
          ELSE {})

\* the ten predicates of the specification's checklist, in its order
SpecifiedKeys ==
    << <<"h", "a", "s", "S", "t", "a", "r", "t", "T", "o", "g", "g", "l", "e">>, <<"h", "a", "s",
         "D", "a", "c">>, <<"h", "a", "s", "V", "o", "l", "u", "m", "e", "C", "o", "n", "t", "r",
         "o", "l">>, <<"h", "a", "s", "V", "u", "M", "e", "t", "e", "r">>,
       <<"h", "a", "s", "I", "n", "s", "t", "r", "u", "c", "t", "i", "o", "n", "s">>, <<"h", "a",
         "s", "L", "o", "a", "d", "B", "a", "n", "g">>, <<"h", "a", "s", "M", "e", "t", "r", "o">>,
         <<"h", "a", "s", "C", "o", "n", "n", "e", "c", "t", "i", "o", "n", "s">>,
       <<"h", "a", "s", "A", "u", "d", "i", "o", "C", "h", "a", "i", "n">>, <<"h", "a", "s", "P",
         "r", "o", "p", "e", "r", "C", "o", "n", "n", "e", "c", "t", "i", "o", "n", "s">> >>

\* the keys of a validation object, in order
KeysOf(validation) == [i \in 1..Len(validation) |-> validation[i].key]

\* C18: every validation object has the same 11 keys in the same order: the
\* ten of the specification's checklist and hasSafeVolume after them; each key
\* comes with a boolean.
C18_ElevenKeys ==
    \A report \in Reports :
        /\ KeysOf(report.validation) = SpecifiedKeys \o << <<"h", "a", "s", "S", "a", "f", "e",
                                                            "V", "o", "l", "u", "m", "e">> >>
        /\ \A i \in 1..Len(report.validation) : report.validation[i].ok \in BOOLEAN
        /\ Cardinality({report.validation[i].key : i \in 1..Len(report.validation)}) = 11

\* a cycle received the completion with four connections and without level
\* meter and built the validation object for it
C18_Witness ==
    \E report \in Reports :
        /\ report.content = FewConnectionsCompletion
        /\ Len(report.validation) = 11
        /\ {report.validation[i].key : i \in {i \in 1..11 : ~report.validation[i].ok}}
              = { <<"h", "a", "s", "V", "u", "M", "e", "t", "e", "r">>, <<"h", "a", "s", "P", "r",
                    "o", "p", "e", "r", "C", "o", "n", "n", "e", "c", "t", "i", "o", "n", "s">> }

\* C18 (as the specification has it): every validation object has exactly the
\* ten keys of the checklist.
C18_AsSpecified ==
    \A report \in Reports : KeysOf(report.validation) = SpecifiedKeys

\* patch bodies in which a text the checks look for is the very first or the
\* very last thing, and the white space a completion may have around them
EdgeBodies ==
    { <<"t", "g", "l", " ", "1", "5", " ", "0", " ", "S", "T", "A", "R", "T">>, <<"S", "T", "A",
        "R", "T", " ", "t", "g", "l", " ", "1", "5", " ", "0">>, <<"d", "a", "c", "~">>, <<"*",
        "~", " ", "0", ".", "5">>, <<"*", "~", " ", "0", ".", "2", "5">>, <<"*", "~", " ", "0",
        ".", "1">>,
      <<"v", "u", " ", "1", "5", " ", "1", "2", "0">>, <<"c", "n", "v", " ", "1", "5", " ", "t",
        "e", "x", "t">>, <<"t", "e", "x", "t", " ", "c", "n", "v", " ", "1", "5">>, <<"l", "o",
        "a", "d", "b", "a", "n", "g">>, <<"m", "e", "t", "r", "o">>,
      <<"#", "X", " ", "c", "o", "n", "n", "e", "c", "t">>, <<"#", "X", " ", "c", "o", "n", "n",
        "e", "c", "t", " ", "1", " ", "2">>, <<"o", "s", "c", "~", " ", "*", "~", " ", "c", "l",
        "i", "p", "~", " ", "d", "a", "c", "~">>, <<"d", "a", "c", "~", " ", "c", "l", "i", "p",
        "~", " ", "*", "~", " ", "n", "o", "i", "s", "e", "~">>,
      FourConnections \o TwoConnections, TrimEnd(FourConnections \o TwoConnections),
      <<>> }

Paddings == { <<>>, <<" ">>, <<"\n">>, <<"	", " ", "\n">> }

PaddedBodies ==
    {left \o body \o right : left \in Paddings, body \in EdgeBodies, right \in Paddings}

\* trim() changes the outcome of no check, whatever is at the ends of the text
TrimKeepsReport == \A body \in PaddedBodies : Validation(Trim(body)) = Validation(body)

\* the same of the patch bodies of the completions the service answers with
CompletionsRevalidate ==
    \A row \in DerivedRows : Validation(Trim(row.patch)) = row.validation

\* C19: the content of a Patch that handleGenerate stored (the trimmed patch
\* body, which is what handleDownload exports) validates to the validation
\* object that was built for the untrimmed patch body during the generation;
\* so does the trimmed patch body of every completion of the service, and so
\* does every text with white space at its ends.
C19_ExportRevalidates ==
    /\ Ended /\ done.kind = "generate" /\ done.outcome = "stored"
          => /\ Exported(currentPatch) = history[1].content
             /\ Validation(Exported(currentPatch)) = done.validation
    /\ CompletionsRevalidate
    /\ TrimKeepsReport

\* a generation was stored whose patch body had white space at its ends that
\* the stored content has not, and a check of which had failed
C19_Witness ==
    /\ Ended
    /\ done.kind = "generate"
    /\ done.outcome = "stored"
    /\ Exported(currentPatch) # PatchOf(ContentOf(done.content))
    /\ Exported(currentPatch) = Trim(PatchOf(ContentOf(done.content)))
    /\ \E i \in 1..Len(done.validation) : ~done.validation[i].ok

\* the patch body generatePdPatch takes out of a message.content
\* (openai.ts 79-84)
BodyOf(messageContent) == DerivedFrom(messageContent).patch

\* C20: two validation objects built for the same patch body are equal,
\* whichever handler asked (a prompt, or an error report as feedback) and
\* whatever the retryCount of the attempt was; each is the one the validator
\* gives for that body alone.
C20_ReportOfTextOnly ==
    /\ \A r1, r2 \in Reports :
          BodyOf(r1.content) = BodyOf(r2.content) => r1.validation = r2.validation
    /\ \A report \in Reports : report.validation = DerivedFrom(report.content).validation

\* the same body was validated for a generation and for a regeneration, at
\* different retryCount, and had failed a check
C20_Witness ==
    \E r1, r2 \in Reports :
        /\ BodyOf(r1.content) = BodyOf(r2.content)
        /\ r1.kind = "generate"
        /\ r2.kind = "regenerate"
        /\ r1.retryCount # r2.retryCount
        /\ \E i \in 1..Len(r1.validation) : ~r1.validation[i].ok

(***************************************************************************)
(* The Requests of a Repair                                                *)
(***************************************************************************)
\* the text is part of one of the user turns of the request
Carries(request, text) ==
    \E i \in 1..Len(request.messages) : Includes(request.messages[i], text)

\* C22: the request of every completion call a regeneration makes carries the
\* error text handleRegenerate was called with, in the first attempt and in
\* the repair attempts that follow a completion that failed a check.
C22_AsSpecified ==
    \A c \in DOMAIN cycles :
        cycles[c].kind = "regenerate" => Carries(cycles[c].request, cycles[c].errorMessage)

(***************************************************************************)
(* The API Settings Dialog                                                 *)
(***************************************************************************)
\* the last step ended a handleGenerate cycle at a key check of
\* generatePdPatch: nothing was thrown by an await, and the key in
\* localStorage, which the failing step read and left as it is, is absent or
\* malformed
KeyCheckFailed ==
    /\ Ended
    /\ done.kind = "generate"
    /\ done.outcome = "failed"
    /\ done.raw = Nothing
    /\ KeyMissing(localStorage.openai_api_key) \/ KeyInvalid(localStorage.openai_api_key)

\* C24: when handleGenerate fails because no API key is stored or the stored
\* key is malformed, the API settings dialog is open afterwards.
C24_AsSpecified == KeyCheckFailed => showApiSettings

(***************************************************************************)
(* The Validator and the Audio Check                                       *)
(***************************************************************************)
\* patch bodies that pass every check of the validator, one for each audio
\* source and each gain it accepts, with six or seven connections
\* (of one digit or more), bare or between white space
AudioSources == { <<"o", "s", "c", "~">>, <<"p", "h", "a", "s", "o", "r", "~">>, <<"n", "o", "i",
                    "s", "e", "~">> }

Gains == { <<"0", ".", "5">>, <<"0", ".", "2", "5">> }

ConnectionLines ==
    { FourConnections \o TwoConnections,
      FourConnections \o TwoConnections \o <<"#", "X", " ", "c", "o", "n", "n", "e", "c", "t", " ",
                                             "6", " ", "0", ";", "\n">>,
      FourConnections \o <<"#", "X", " ", "c", "o", "n", "n", "e", "c", "t", " ", "1", "0", " ",
                           "0", " ", "1", "1", " ", "0", ";", "\n", "#", "X", " ", "c", "o", "n",
                           "n", "e", "c", "t", " ", "1", "1", " ", "0", " ", "1", "2", " ", "1",
                           ";">> }

FullBody(source, gain, connections) ==
    CanvasLine \o ControlLines
    \o <<"#", "X", " ", "o", "b", "j", " ">> \o source \o <<";", "\n", "#", "X", " ", "o", "b",
         "j", " ", "*", "~", " ">> \o gain \o <<";", "\n", "#", "X", " ", "o", "b", "j", " ", "c",
         "l", "i", "p", "~", ";", "\n", "#", "X", " ", "o", "b", "j", " ", "d", "a", "c", "~", ";",
         "\n">>
    \o VuLine \o connections

ValidatedBodies ==
    {left \o FullBody(source, gain, connections) \o right :
        source \in AudioSources, gain \in Gains, connections \in ConnectionLines,
        left \in {<<>>, <<"\n">>}, right \in {<<>>, <<" ", "\n">>}}

\* each of them passes every check of the validator, and passes the audio
\* check once trimmed
ValidatedPassAudio ==
    \A body \in ValidatedBodies :
        ~SomeMissing(Validation(body)) /\ AudioValidation(Trim(body))

\* C23: a result generatePdPatch returns for a completion that passed every
\* check passes the audio check of handleGenerate and is stored at the head of
\* History; the same holds of every fully validated body, whatever its audio
\* source, gain and connections.
C23_ValidatedIsStored ==
    /\ Ended /\ done.kind = "generate" /\ done.returned # Nothing /\ AllPass(done.content)
          => /\ done.outcome = "stored"
             /\ done.caught = Nothing
             /\ history # <<>>
             /\ history[1].content = done.returned.patch
    /\ ValidatedPassAudio

\* a generation whose last completion passed every check was stored
C23_Witness ==
    /\ Ended
    /\ done.kind = "generate"
    /\ done.outcome = "stored"
    /\ AllPass(done.content)
    /\ history[1].content = done.returned.patch

(***************************************************************************)
(* The Response Splitter                                                   *)
(***************************************************************************)
\* what the code derived from the completion a report was built for: the
\* patch body and the explanation of the split (openai.ts 79-83)
Sections(report) ==
    [content |-> ContentOf(report.content),
     patch |-> DerivedFrom(report.content).patch,
     explanation |-> DerivedFrom(report.content).explanation]

SectionsSeen == {Sections(report) : report \in Reports}

\* C21: of a completion without the ---PATCH--- marker the patch body is '',
\* and of a completion without the ---EXPLANATION--- marker the explanation
\* is ''.  (No step of the splitter throws: every completion received is
\* followed by the validation of its patch body.)
C21_AsSpecified ==
    \A sections \in SectionsSeen :
        /\ ~Includes(sections.content, PatchMarker) => sections.patch = <<>>
        /\ ~Includes(sections.content, ExplanationMarker) => sections.explanation = <<>>

\* the positions where the marker occurs in the content
Occurrences(content, marker) ==
    {i \in 1..Len(content) : MatchesAt(content, i, marker)}

\* the text that follows the first occurrence of the marker, up to the next
\* marker of either kind or to the end of the content
Following(content, marker) ==
    LET start == FirstMatch(Occurrences(content, marker)) + Len(marker)
        next  == FirstMatch({k \in start..Len(content) : MarkerLenAt(content, k) > 0})
    IN  SubSeq(content, start, IF next = 0 THEN Len(content) ELSE next - 1)

\* C29: of a completion that contains each marker at least once, the patch
\* body is the text that follows the ---PATCH--- marker (without fences), the
\* explanation is the text that follows the ---EXPLANATION--- marker, and the
\* split has at most three segments.
C29_AsSpecified ==
    \A sections \in SectionsSeen :
        /\ Includes(sections.content, PatchMarker)
        /\ Includes(sections.content, ExplanationMarker)
        => /\ sections.patch = StripFences(Following(sections.content, PatchMarker), 1)
           /\ sections.explanation = Following(sections.content, ExplanationMarker)
           /\ Len(Split(sections.content)) <= 3

(***************************************************************************)
(* The Volume Checks                                                       *)
(***************************************************************************)
\* the entry of a validation object with the given key
Check(validation, key) ==
    validation[CHOOSE i \in 1..Len(validation) : validation[i].key = key].ok

\* the decimal literal that starts at position i of s (digits, then
\* optionally a point and digits) is a number of at most 0.5
AtMostHalf(s, i) ==
    LET whole    == DigitRun(s, i)
        point    == i + whole
        fraction == IF point <= Len(s) /\ s[point] = "." THEN DigitRun(s, point + 1) ELSE 0
    IN  /\ whole > 0
        /\ \A k \in i..(point - 1) : s[k] = "0"
        /\ \/ fraction = 0
           \/ s[point + 1] \in {"0", "1", "2", "3", "4"}
           \/ /\ s[point + 1] = "5"
              /\ \A k \in (point + 2)..(point + fraction) : s[k] = "0"

\* the patch has a '*~' object whose argument is a gain of at most 0.5
HasSafeStage(patch) ==
    \E i \in Occurrences(patch, <<"*", "~", " ">>) : AtMostHalf(patch, i + 3)

\* the patch bodies of the completions of the service that pass
\* hasVolumeControl without such an object
LoudBodies ==
    {row.patch : row \in {row \in DerivedRows :
        Check(row.validation, <<"h", "a", "s", "V", "o", "l", "u", "m", "e", "C", "o", "n", "t",
                                "r", "o", "l">>) /\ ~HasSafeStage(row.patch)}}

\* C25: a patch body for which hasVolumeControl is true has a '*~' object
\* with a gain of at most 0.5.
C25_AsSpecified ==
    \A sections \in SectionsSeen : sections.patch \notin LoudBodies

\* the validation object without its last entry: the ten predicates of the
\* specification's checklist
TenOf(validation) == SubSeq(validation, 1, Len(SpecifiedKeys))

\* hasVolumeControl implies hasSafeVolume, and at every retryCount the
\* condition of the repair branch has the same value for the eleven entries
\* and for the first ten
SameDecision(validation) ==
    /\ KeysOf(TenOf(validation)) = SpecifiedKeys
    /\ Check(validation, <<"h", "a", "s", "V", "o", "l", "u", "m", "e", "C", "o", "n", "t", "r",
                           "o", "l">>) => Check(validation, <<"h", "a", "s", "S", "a", "f", "e",
                           "V", "o", "l", "u", "m", "e">>)
    /\ \A retryCount \in 0..RetryLimit :
          ShouldRetry(retryCount, validation) = ShouldRetry(retryCount, TenOf(validation))

\* the same of the completions of the service and of the bodies that pass
\* every check
SameDecisionOfAll ==
    /\ \A row \in DerivedRows : SameDecision(row.validation)
    /\ \A body \in ValidatedBodies \cup PaddedBodies : SameDecision(Validation(body))

\* C30: for every validation object a cycle builds, hasVolumeControl true
\* implies hasSafeVolume true, and the repair decision taken from its eleven
\* entries is the one taken from the ten predicates of the specification, at
\* every retryCount; the decision the cycle took is that one.
C30_SameRetryDecision ==
    /\ \A report \in Reports :
          /\ SameDecision(report.validation)
          /\ report.retryCount \in 0..RetryLimit
    /\ \A c \in DOMAIN cycles :
          cycles[c].retryCount >= 1 =>
              ShouldRetry(cycles[c].retryCount - 1, TenOf(cycles[c].validation))
    /\ Ended /\ done.returned # Nothing
          => ~ShouldRetry(done.retryCount, TenOf(done.validation))
    /\ SameDecisionOfAll

\* a cycle returned a result whose volume stage passes hasSafeVolume and not
\* hasVolumeControl, after the repair attempts this asked for
C30_Witness ==
    /\ Ended
    /\ done.returned # Nothing
    /\ done.retryCount = RetryLimit
    /\ ~Check(done.validation, <<"h", "a", "s", "V", "o", "l", "u", "m", "e", "C", "o", "n", "t",
                                 "r", "o", "l">>)
    /\ Check(done.validation, <<"h", "a", "s", "S", "a", "f", "e", "V", "o", "l", "u", "m", "e">>)

(***************************************************************************)
(* The Selected Patch and the Busy Flags                                   *)
(***************************************************************************)
\* C27: a selected Patch is one of the Patches of History, with the same
\* name, content and errorHistory.
C27_AsSpecified ==
    currentPatch # Nothing =>
        \E i \in 1..Len(history) :
            /\ history[i].name = currentPatch.name
            /\ history[i].content = currentPatch.content
            /\ history[i].errorHistory = currentPatch.errorHistory

\* C28: isGenerating is true while a handleGenerate cycle is in flight, and
\* isRegenerating while a handleRegenerate cycle is.
C28_AsSpecified ==
    \A c \in DOMAIN cycles :
        /\ cycles[c].kind = "generate" => isGenerating
        /\ cycles[c].kind = "regenerate" => isRegenerating

\* regenerations do not overlap: isRegenerating is true while one is in flight
RegeneratingWhileInFlight ==
    \A c \in DOMAIN cycles : cycles[c].kind = "regenerate" => isRegenerating

(***************************************************************************)
(* Termination                                                             *)
(***************************************************************************)
\* the busy flag of a handler
Busy(kind) == IF kind = "generate" THEN isGenerating ELSE isRegenerating

\* the cycle that just ended has returned a result or thrown an error after
\* at most three completion calls, and the busy flag of its handler is false
EndedInOrder ==
    Ended => /\ done.returned # Nothing \/ done.thrown # Nothing
             /\ done.calls <= RetryLimit + 1
             /\ ~Busy(done.kind)

\* C26: every cycle in flight ends.  A cycle leaves the cycles in flight only
\* with a result or an error (or with the page that is loaded again), after
\* at most three completion calls, and when it has ended the busy flag of its
\* handler is false, whether it returned or threw.
C26_CyclesTerminate ==
    /\ \A c \in 1..MaxCycles : (c \in DOMAIN cycles) ~> (c \notin DOMAIN cycles)
    /\ [][\A c \in DOMAIN cycles :
             c \notin DOMAIN cycles' => Reload \/ (Ended' /\ done'.id = c)]_vars
    /\ []EndedInOrder

\* a regeneration ended at its third completion call, cut by the timer, and
\* isRegenerating is false
C26_Witness ==
    /\ Ended
    /\ done.kind = "regenerate"
    /\ done.calls = RetryLimit + 1
    /\ done.raw = TimeoutError
    /\ done.thrown # Nothing
    /\ ~isRegenerating

(***************************************************************************)
(* What a Failed Cycle Leaves Alone                                        *)
(***************************************************************************)
\* the step is one of a cycle: a handler is called, or a completion call of a
\* cycle in flight is answered, fails or is cut by its timer
StepOfCycle ==
    /\ ~Reload
    /\ \/ nextCycle' # nextCycle
       \/ cycles' # cycles

\* the step ends a cycle with a stored Patch
StoresPatch == Ended' /\ done'.outcome = "stored"

\* C31: no step of a cycle but the one that stores its result changes
\* History, the persisted collection or currentPatch: a cycle that ends with
\* an error of generatePdPatch, or with a result that the audio check of
\* handleGenerate rejects, has changed none of them.
C31_FailureChangesNothing ==
    [][StepOfCycle /\ ~StoresPatch
          => /\ UNCHANGED <<history, currentPatch>>
             /\ localStorage'.pdPatchHistory = localStorage.pdPatchHistory
             /\ Ended' => done'.outcome \in {"failed", "rejected"}
      ]_vars

\* a generation made its three completion calls and its result was rejected
\* by the audio check, with a Patch selected and History not empty
C31_Witness ==
    /\ Ended
    /\ done.kind = "generate"
    /\ done.outcome = "rejected"
    /\ done.calls = RetryLimit + 1
    /\ currentPatch # Nothing
    /\ history # <<>>
    /\ localStorage.pdPatchHistory # Nothing

(***************************************************************************)
(* clearHistory and a Regeneration in Flight                               *)
(***************************************************************************)
\* History is empty, and so is the collection a reload would restore
Cleared == history = <<>> /\ Restored = <<>>

\* C32: once History and the persisted collection are empty they stay empty
\* until a generation is stored; a regeneration that was in flight when
\* clearHistory ran and is stored afterwards puts no Patch into either (it
\* writes the empty list under 'pdPatchHistory' and selects its result).
C32_ClearedStaysEmpty ==
    [][Cleared /\ ~GenerationStored
          => /\ Cleared'
             /\ RegenerationStored
                   => /\ localStorage'.pdPatchHistory = Stringify(<<>>)
                      /\ currentPatch' # Nothing
                      /\ currentPatch'.errorHistory[1].regeneratedPatch.content
                            = done'.returned.patch
      ]_vars

\* a regeneration was stored after clearHistory had emptied History: both
\* collections are empty and the result is the selected Patch
C32_Witness ==
    /\ Ended
    /\ done.kind = "regenerate"
    /\ done.outcome = "stored"
    /\ history = <<>>
    /\ localStorage.pdPatchHistory = Stringify(<<>>)
    /\ currentPatch # Nothing
    /\ Len(currentPatch.errorHistory) >= 1

====
